---- MODULE Spec2Model ----
(***************************************************************************)
(* Model of the grus task store (src/src/store.rs): six sanakirja B-tree   *)
(* indexes edited by one write transaction at a time.                      *)
(*                                                                         *)
(* A sanakirja Db<K,V> is an ordered set of (key, value) entries: several  *)
(* entries may share a key, `get` positions a cursor on the least entry    *)
(* not below the probe, `del` with no value removes the first entry of the *)
(* key.  Every index is therefore a set of entries, read through the       *)
(* cursor operators below.                                                 *)
(***************************************************************************)
EXTENDS Integers, Sequences, FiniteSets, TLC

\* ---------------------------------------------------------------- bounds
\* ids are allocated while ID_SEQ <= MaxId
MaxId == 3
\* payloads are drawn from 1..MaxData
MaxData == 2
\* sessions are drawn from 1..MaxSession
MaxSession == 2
\* write transactions of one run
MaxOps == 5
\* writer operations of one run when transactions are taken step by step
MaxTxnOps == 3
\* times the program is started on one environment file
MaxOpens == 2
\* selected nodes of one Share or Cut intent
MaxSel == 2
\* transactions before the last Share or Cut intent of one run
MaxIntentOps == 4

Payloads == 1..MaxData
SessionVals == 1..MaxSession

\* Option::None of the accessors: of a u64, of a B-tree entry, of an RTriple
NoneId == -1
NoneEntry == <<>>
NoneRT == [none |-> TRUE]

\* ------------------------------------------------------- B-tree cursors
\* RTriple derives Ord over its fields in declaration order: pid, next, prev
RTripleLess(a, b) ==
    \/ a.pid < b.pid
    \/ a.pid = b.pid /\ a.next < b.next
    \/ a.pid = b.pid /\ a.next = b.next /\ a.prev < b.prev

RTripleLeq(a, b) == a = b \/ RTripleLess(a, b)

\* entries of LINKS / NODES / SESSIONS are <<key, value>> with integer values
PairLeq(a, b) == a[1] < b[1] \/ (a[1] = b[1] /\ a[2] <= b[2])

\* entries of RLINKS are <<id, RTriple>>
REntryLeq(a, b) == a[1] < b[1] \/ (a[1] = b[1] /\ RTripleLeq(a[2], b[2]))

\* btree::get(txn, db, &k, None) on an integer-valued index: the least entry
\* whose key is not below k
PairGet(db, k) ==
    LET above == {e \in db : e[1] >= k}
    IN  IF above = {} THEN NoneEntry
        ELSE CHOOSE e \in above : \A f \in above : PairLeq(e, f)

\* btree::get(txn, rlinks, &k, Some(&probe)) / (.., None)
REntryGetFrom(db, k, probe) ==
    LET above == {e \in db : REntryLeq(<<k, probe>>, e)}
    IN  IF above = {} THEN NoneEntry
        ELSE CHOOSE e \in above : \A f \in above : REntryLeq(e, f)

REntryGet(db, k) ==
    LET above == {e \in db : e[1] >= k}
    IN  IF above = {} THEN NoneEntry
        ELSE CHOOSE e \in above : \A f \in above : REntryLeq(e, f)

\* btree::del(txn, db, &k, None): removes the first entry of key k, if any
PairDelFirst(db, k) ==
    LET e == PairGet(db, k)
    IN  IF e # NoneEntry /\ e[1] = k THEN db \ {e} ELSE db

\* btree::del(txn, db, &k, Some(&v)): removes exactly (k, v), if present
DelExact(db, k, v) == db \ {<<k, v>>}

\* btree::put(txn, db, &k, &v): inserts (k, v) unless already present
Put(db, k, v) == db \cup {<<k, v>>}

\* ------------------------------------------------------- read accessors
get_child(s, id) ==
    LET e == PairGet(s.links, id)
    IN  IF e # NoneEntry /\ e[1] = id THEN e[2] ELSE NoneId

get_rt(s, id, pid) ==
    LET e == REntryGetFrom(s.rlinks, id, [pid |-> pid, next |-> 0, prev |-> 0])
    IN  IF e # NoneEntry /\ e[1] = id /\ e[2].pid = pid THEN e[2] ELSE NoneRT

read(s, id) ==
    LET e == PairGet(s.nodes, id)
    IN  IF e # NoneEntry /\ e[1] = id THEN e[2] ELSE NoneId

unwrap_or(v, d) == IF v = NoneId THEN d ELSE v

\* Result<_, Error> of a writer operation: the writer's indexes afterwards,
\* the returned value, and whether invalid_data_error was raised on the way
\* (the indexes of a failed operation are whatever it had written so far).
\* ret is the u64 of Result<u64, _>, res the bool of Result<bool, _>.
Ok(s, r) == [s |-> s, ret |-> r, res |-> TRUE, err |-> FALSE]
OkBool(s, b) == [s |-> s, ret |-> 0, res |-> b, err |-> FALSE]
Err(s) == [s |-> s, ret |-> 0, res |-> FALSE, err |-> TRUE]

\* `let x = v;` of the code is written Only({e : x \in {v}}): v is computed
\* once and e may use it any number of times.
Only(S) == CHOOSE x \in S : TRUE

\* ChildIds::new followed by ChildIds::next until it returns None: the ids
\* walked from `first` along the next-pointers of pid's triples.  err: a
\* triple was missing (invalid_data_error).  The iterator of the code never
\* ends on a circular list; the walk here gives up after `fuel` ids and
\* reports that as loop.
RECURSIVE ChildIds(_, _, _, _)
ChildIds(s, pid, first, fuel) ==
    IF first = 0 THEN [ids |-> <<>>, err |-> FALSE, loop |-> FALSE]
    ELSE IF fuel = 0 THEN [ids |-> <<>>, err |-> FALSE, loop |-> TRUE]
    ELSE Only({
        IF rt = NoneRT THEN [ids |-> <<>>, err |-> TRUE, loop |-> FALSE]
        ELSE Only({[ids |-> <<first>> \o rest.ids, err |-> rest.err, loop |-> rest.loop]
                   : rest \in {ChildIds(s, pid, rt.next, fuel - 1)}})
        : rt \in {get_rt(s, first, pid)}})

child_ids(s, id) ==
    ChildIds(s, id, unwrap_or(get_child(s, id), 0), Cardinality(s.rlinks))

\* ----------------------------------------------------- writer operations
\* modify_rt(id, pid, f): read the triple, delete it, apply f, put it back.
\* The closures of the code assign next, prev or both; upd holds the fields
\* f assigns.
modify_rt(s, id, pid, upd) ==
    Only({
        IF rt = NoneRT THEN Err(s)
        ELSE Ok([s EXCEPT !.rlinks = Put(DelExact(@, id, rt), id,
                    [f \in DOMAIN rt |-> IF f \in DOMAIN upd THEN upd[f] ELSE rt[f]])], 0)
        : rt \in {get_rt(s, id, pid)}})

\* the head insertion shared by add_child and share: LINKS[pid] = id, the
\* new triple (id, {pid, next, 0}), and the old head's prev
link_at_head(s, pid, id, next) ==
    Only({
        IF next > 0 THEN modify_rt(s1, next, pid, [prev |-> id]) ELSE Ok(s1, 0)
        : s1 \in {[s EXCEPT !.links = Put(PairDelFirst(@, pid), pid, id),
                            !.rlinks = Put(@, id, [pid |-> pid, next |-> next, prev |-> 0])]}})

\* add_child that leaves the old head's prev pointer alone
add_child_no_prev(s, pid, data) ==
    Only({
        Ok([s EXCEPT !.links = Put(PairDelFirst(@, pid), pid, s.id),
                     !.rlinks = Put(@, s.id, [pid |-> pid, next |-> next, prev |-> 0]),
                     !.nodes = Put(@, s.id, data),
                     !.id = @ + 1], s.id)
        : next \in {unwrap_or(get_child(s, pid), 0)}})

\* add_child that puts the new LINKS entry without deleting the old one
add_child_keeps_old_head(s, pid, data) ==
    Only({
        IF r2.err THEN r2
        ELSE Ok([r2.s EXCEPT !.links = Put(s.links, pid, s.id),
                             !.nodes = Put(@, s.id, data),
                             !.id = @ + 1], s.id)
        : r2 \in {link_at_head(s, pid, s.id, unwrap_or(get_child(s, pid), 0))}})

\* add_child that forgets `self.id += 1`
add_child_keeps_seq(s, pid, data) ==
    Only({
        IF r2.err THEN r2
        ELSE Ok([r2.s EXCEPT !.nodes = Put(@, s.id, data)], s.id)
        : r2 \in {link_at_head(s, pid, s.id, unwrap_or(get_child(s, pid), 0))}})

add_child(s, pid, data) ==
    Only({
        IF r2.err THEN r2
        ELSE Ok([r2.s EXCEPT !.nodes = Put(@, s.id, data), !.id = @ + 1], s.id)
        : r2 \in {link_at_head(s, pid, s.id, unwrap_or(get_child(s, pid), 0))}})

\* add_session that writes SESSIONS only
add_session_forward_only(s, id, session) ==
    Ok([s EXCEPT !.sessions = Put(@, id, session)], 0)

add_session(s, id, session) ==
    Ok([s EXCEPT !.sessions = Put(@, id, session),
                 !.rsessions = Put(@, session, id)], 0)

modify(s, id, data) ==
    Ok([s EXCEPT !.nodes = Put(PairDelFirst(@, id), id, data)], 0)

\* the unlink of delete without the re-pointing of LINKS[pid]
unlink_no_head_update(s1, pid, rt) ==
    Only({
        IF r2.err THEN r2
        ELSE IF rt.next > 0 THEN modify_rt(r2.s, rt.next, pid, [prev |-> rt.prev])
        ELSE r2
        : r2 \in {IF rt.prev > 0 THEN modify_rt(s1, rt.prev, pid, [next |-> rt.next])
                  ELSE Ok(s1, 0)}})

\* the unlink of delete: the neighbours' pointers, and LINKS[pid] when id
\* was the head and has a next sibling
unlink(s1, pid, rt) ==
    Only({
        IF r2.err THEN r2
        ELSE IF rt.next > 0 THEN modify_rt(r2.s, rt.next, pid, [prev |-> rt.prev])
        ELSE r2
        : r2 \in {IF rt.prev > 0 THEN modify_rt(s1, rt.prev, pid, [next |-> rt.next])
                  ELSE IF rt.next > 0 THEN Ok([s1 EXCEPT !.links = Put(@, pid, rt.next)], 0)
                  ELSE Ok(s1, 0)}})

RECURSIVE delete(_, _, _)
RECURSIVE delete_helper(_, _, _)
RECURSIVE delete_children(_, _, _, _)

\* the two loops at the end of delete_helper: child_ids.next reads the
\* triple of `cur` (and so the id it will visit next) before `cur` is
\* deleted; the first child's LINKS entry is removed by hand
delete_children(s, id, cur, isFirst) ==
    IF cur = 0 THEN Ok(s, 0)
    ELSE Only({
        IF rt = NoneRT THEN Err(s)
        ELSE Only({IF r.err THEN r ELSE delete_children(r.s, id, rt.next, FALSE)
                   : r \in {delete(IF isFirst
                                   THEN [s EXCEPT !.links = DelExact(@, id, cur)]
                                   ELSE s, id, cur)}})
        : rt \in {get_rt(s, cur, id)}})

\* what delete_helper does once the triple rt of (pid, id) is read
delete_helper_rest(s1, id) ==
    Only({
        IF e # NoneEntry /\ e[1] = id THEN Ok(s1, 0)
        ELSE Only({delete_children(s2, id, unwrap_or(get_child(s2, id), 0), TRUE)
                   : s2 \in {[s1 EXCEPT !.nodes = PairDelFirst(@, id)]}})
        : e \in {REntryGet(s1.rlinks, id)}})

\* delete_helper that forgets the payload of an orphaned node
delete_helper_keeps_payload(s, pid, id) ==
    Only({
        IF rt = NoneRT THEN Err(s)
        ELSE Only({
            IF REntryGet(s1.rlinks, id) # NoneEntry /\ REntryGet(s1.rlinks, id)[1] = id
            THEN Ok(s1, 0)
            ELSE delete_children(s1, id, unwrap_or(get_child(s1, id), 0), TRUE)
            : s1 \in {[s EXCEPT !.rlinks = DelExact(@, id, rt)]}})
        : rt \in {get_rt(s, id, pid)}})

delete_helper(s, pid, id) ==
    Only({
        IF rt = NoneRT THEN Err(s)
        ELSE Only({delete_helper_rest(s1, id)
                   : s1 \in {[s EXCEPT !.rlinks = DelExact(@, id, rt)]}})
        : rt \in {get_rt(s, id, pid)}})

delete(s, pid, id) ==
    Only({
        Only({
            IF rt = NoneRT THEN Err(s1)
            ELSE Only({IF r3.err THEN r3 ELSE delete_helper(r3.s, pid, id)
                       : r3 \in {unlink(s1, pid, rt)}})
            : rt \in {get_rt(s1, id, pid)}})
        : s1 \in {[s EXCEPT !.links = DelExact(@, pid, id)]}})

\* move_up that leaves LINKS[pid] alone when the predecessor was the head
move_up_swap_keeps_head(s, pid, id, rt, prt) ==
    Only({
        Only({
            Only({
                IF r3.err THEN r3
                ELSE IF prt.prev > 0 THEN modify_rt(r3.s, prt.prev, pid, [next |-> id])
                ELSE r3
                : r3 \in {IF r2.err THEN r2
                          ELSE modify_rt(r2.s, rt.prev, pid, [next |-> rt.next, prev |-> id])}})
            : r2 \in {IF r1.err THEN r1
                      ELSE IF rt.next > 0
                      THEN modify_rt(r1.s, rt.next, pid, [prev |-> rt.prev])
                      ELSE r1}})
        : r1 \in {modify_rt(s, id, pid, [next |-> rt.prev, prev |-> prt.prev])}})

\* move_up once the triples rt of id and prt of its predecessor are read
move_up_swap(s, pid, id, rt, prt) ==
    Only({
        Only({
            Only({
                IF r3.err THEN r3
                ELSE IF prt.prev > 0 THEN modify_rt(r3.s, prt.prev, pid, [next |-> id])
                ELSE Ok([r3.s EXCEPT !.links = Put(PairDelFirst(@, pid), pid, id)], 0)
                : r3 \in {IF r2.err THEN r2
                          ELSE modify_rt(r2.s, rt.prev, pid, [next |-> rt.next, prev |-> id])}})
            : r2 \in {IF r1.err THEN r1
                      ELSE IF rt.next > 0
                      THEN modify_rt(r1.s, rt.next, pid, [prev |-> rt.prev])
                      ELSE r1}})
        : r1 \in {modify_rt(s, id, pid, [next |-> rt.prev, prev |-> prt.prev])}})

move_up(s, pid, id) ==
    Only({
        IF rt = NoneRT THEN Err(s)
        ELSE IF rt.prev = 0 THEN Ok(s, 0)
        ELSE Only({IF prt = NoneRT THEN Err(s) ELSE move_up_swap(s, pid, id, rt, prt)
                   : prt \in {get_rt(s, rt.prev, pid)}})
        : rt \in {get_rt(s, id, pid)}})

\* move_down once the triples rt of id and nrt of its successor are read
move_down_swap(s, pid, id, rt, nrt) ==
    Only({
        Only({
            Only({
                IF r3.err THEN r3
                ELSE IF nrt.next > 0 THEN modify_rt(r3.s, nrt.next, pid, [prev |-> id])
                ELSE Ok(r3.s, 0)
                : r3 \in {IF r2.err THEN r2
                          ELSE modify_rt(r2.s, rt.next, pid, [prev |-> rt.prev, next |-> id])}})
            : r2 \in {IF r1.err THEN r1
                      ELSE IF rt.prev > 0
                      THEN modify_rt(r1.s, rt.prev, pid, [next |-> rt.next])
                      ELSE Ok([r1.s EXCEPT !.links =
                                  Put(PairDelFirst(@, pid), pid, rt.next)], 0)}})
        : r1 \in {modify_rt(s, id, pid, [prev |-> rt.next, next |-> nrt.next])}})

move_down(s, pid, id) ==
    Only({
        IF rt = NoneRT THEN Err(s)
        ELSE IF rt.next = 0 THEN Ok(s, 0)
        ELSE Only({IF nrt = NoneRT THEN Err(s) ELSE move_down_swap(s, pid, id, rt, nrt)
                   : nrt \in {get_rt(s, rt.next, pid)}})
        : rt \in {get_rt(s, id, pid)}})

\* is_descendent_of(subj, pred).  The recursion of the code does not end on
\* a cyclic graph or a circular sibling list: depth and width bound it here
\* and running out of either is reported as loop.
RECURSIVE is_descendent_of(_, _, _, _)
RECURSIVE is_descendent_of_children(_, _, _, _, _, _)

is_descendent_of_children(s, subj, pred, cur, depth, width) ==
    IF cur = 0 THEN [ret |-> FALSE, err |-> FALSE, loop |-> FALSE]
    ELSE IF width = 0 THEN [ret |-> FALSE, err |-> FALSE, loop |-> TRUE]
    ELSE Only({
        IF rt = NoneRT THEN [ret |-> FALSE, err |-> TRUE, loop |-> FALSE]
        ELSE Only({
            IF r.ret \/ r.err \/ r.loop THEN r
            ELSE is_descendent_of_children(s, subj, pred, rt.next, depth, width - 1)
            : r \in {is_descendent_of(s, subj, cur, depth - 1)}})
        : rt \in {get_rt(s, cur, pred)}})

\* is_descendent_of that looks at pred and its direct children only
is_descendent_of_direct(s, subj, pred, depth) ==
    [ret |-> subj = pred \/ subj \in {e[1] : e \in {f \in s.rlinks : f[2].pid = pred}},
     err |-> FALSE, loop |-> FALSE]

is_descendent_of(s, subj, pred, depth) ==
    IF subj = pred THEN [ret |-> TRUE, err |-> FALSE, loop |-> FALSE]
    ELSE IF depth = 0 THEN [ret |-> FALSE, err |-> FALSE, loop |-> TRUE]
    ELSE is_descendent_of_children(s, subj, pred, unwrap_or(get_child(s, pred), 0),
                                   depth, Cardinality(s.rlinks))

\* share without the cycle check
share_no_cycle_check(s, src, dest) ==
    IF get_rt(s, src, dest) # NoneRT THEN OkBool(s, FALSE)
    ELSE Only({IF r2.err THEN r2 ELSE OkBool(r2.s, TRUE)
               : r2 \in {link_at_head(s, dest, src, unwrap_or(get_child(s, dest), 0))}})

\* share that links src in front of nothing: dest's old head is not chained
share_drops_siblings(s, src, dest) ==
    Only({
        IF d.err \/ d.loop THEN Err(s)
        ELSE IF d.ret THEN OkBool(s, FALSE)
        ELSE IF get_rt(s, src, dest) # NoneRT THEN OkBool(s, FALSE)
        ELSE OkBool([s EXCEPT !.links = Put(PairDelFirst(@, dest), dest, src),
                              !.rlinks = Put(@, src, [pid |-> dest, next |-> 0, prev |-> 0])],
                    TRUE)
        : d \in {is_descendent_of(s, dest, src, Cardinality(s.rlinks) + 1)}})

share(s, src, dest) ==
    Only({
        IF d.err \/ d.loop THEN Err(s)
        ELSE IF d.ret THEN OkBool(s, FALSE)
        ELSE IF get_rt(s, src, dest) # NoneRT THEN OkBool(s, FALSE)
        ELSE Only({IF r2.err THEN r2 ELSE OkBool(r2.s, TRUE)
                   : r2 \in {link_at_head(s, dest, src, unwrap_or(get_child(s, dest), 0))}})
        : d \in {is_descendent_of(s, dest, src, Cardinality(s.rlinks) + 1)}})

\* what cut does after share returned true: the unlink of (src_pid, src),
\* without delete's re-pointing of LINKS[src_pid]
cut_unlink(s1, src_pid, src) ==
    Only({
        IF rt = NoneRT THEN Err(s1)
        ELSE Only({
            Only({
                IF r3.err THEN r3
                ELSE OkBool([r3.s EXCEPT !.rlinks = DelExact(@, src, rt)], TRUE)
                : r3 \in {IF r2.err THEN r2
                          ELSE IF rt.next > 0
                          THEN modify_rt(r2.s, rt.next, src_pid, [prev |-> rt.prev])
                          ELSE r2}})
            : r2 \in {IF rt.prev > 0
                      THEN modify_rt(s1, rt.prev, src_pid, [next |-> rt.next])
                      ELSE Ok(s1, 0)}})
        : rt \in {get_rt(s1, src, src_pid)}})

cut(s, src_pid, src, dest) ==
    Only({
        IF r0.err THEN r0
        ELSE IF ~r0.res THEN OkBool(r0.s, FALSE)
        ELSE Only({cut_unlink(s1, src_pid, src)
                   : s1 \in {[r0.s EXCEPT !.links = DelExact(@, src_pid, src)]}})
        : r0 \in {share(s, src, dest)}})


\* ------------------------------------------------------------ the store
\* store: the six indexes as of the last commit
\* last:  the last writer operation, its arguments and its result
\* nops:  write transactions run so far
\* store: the six roots as of the last commit; last: the last transaction
\* and what it returned; nops: transactions so far; issued: the ids that
\* committed add_child calls have returned; txn: the StoreWriter, if one is
\* open, with its private copy of the six roots; snap: the StoreReader, if
\* one is open, with the roots it read when it began; roots: the root slots
\* of the environment that are set (all six once the store is created)
VARIABLES store, last, nops, issued, txn, snap, roots

\* The views over the store.  mode: Mode::Normal or the CommandType of
\* Mode::Command; status_view: the characters of the status input;
\* wrapped: a text, a width and the splits wrap_text returned for them;
\* parsed: a time text and what proper_time / quick_time returned for it;
\* builder: the FlatTreeBuilder of one build_flattree call and the HashSet
\* of expanded ids next to it; tree_view: the TreeView (its rows, cursor,
\* selection map as a set of (pid, id), root and stack); session_view: the
\* SessionView (items, cursor, start, heights), the session height of its
\* constraints, and whether one of its methods has panicked
VARIABLES mode, status_view, wrapped, parsed, builder, tree_view, session_view

view == <<mode, status_view, wrapped, parsed, builder, tree_view, session_view>>

vars == <<store, last, nops, issued, txn, snap, roots, view>>

\* the root slots of the environment
ID_SQ == 0
DB_LINKS == 1
DB_RLINKS == 2
DB_NODES == 3
DB_SESSIONS == 4
DB_RSESSIONS == 5
Slots == {ID_SQ, DB_LINKS, DB_RLINKS, DB_NODES, DB_SESSIONS, DB_RSESSIONS}

\* Store::create_base on a fresh environment; root_data is payload 1
create_base ==
    [id |-> 1, links |-> {}, rlinks |-> {}, nodes |-> {<<0, 1>>},
     sessions |-> {}, rsessions |-> {}]

NoOp ==
    [op |-> "none", a |-> 0, b |-> 0, c |-> 0, sel |-> <<>>,
     ret |-> 0, res |-> TRUE, err |-> FALSE]

\* no StoreWriter / StoreReader is alive
NoHandle == [open |-> FALSE, s |-> create_base]

\* Store::writer and Store::reader: begin a transaction and read the six
\* roots of the environment into the fields of the StoreRw
writer(env) == [open |-> TRUE, s |-> env]
reader(env) == [open |-> TRUE, s |-> env]

\* commit that does not write ID_SEQ back
commit_without_id(env, w) ==
    [env EXCEPT !.links = w.links, !.rlinks = w.rlinks, !.nodes = w.nodes,
                !.sessions = w.sessions, !.rsessions = w.rsessions]

\* StoreWriter::commit: set_root for each of the six slots, then txn.commit
commit(env, w) ==
    [env EXCEPT !.id = w.id, !.links = w.links, !.rlinks = w.rlinks,
                !.nodes = w.nodes, !.sessions = w.sessions,
                !.rsessions = w.rsessions]

\* ------------------------------------------------------ intents (actions.rs)
\* the loop of Actions::share over the selected ids, in the order the
\* selection yields them: it stops at the first share that returns false
\* or Err.  ret counts the shares that returned true.
RECURSIVE share_loop(_, _, _, _)
share_loop(w, ids, dest, n) ==
    IF ids = <<>> THEN [s |-> w, ret |-> n, res |-> TRUE, err |-> FALSE]
    ELSE Only({
        IF r.err THEN [s |-> r.s, ret |-> n, res |-> FALSE, err |-> TRUE]
        ELSE IF ~r.res THEN [s |-> r.s, ret |-> n, res |-> FALSE, err |-> FALSE]
        ELSE share_loop(r.s, Tail(ids), dest, n + 1)
        : r \in {share(w, Head(ids), dest)}})

\* Actions::share that commits what it had done when a share returns false
share_intent_commits_partial(env, ids, dest) ==
    Only({
        IF r.err THEN [r EXCEPT !.s = env]
        ELSE [r EXCEPT !.s = commit(env, r.s)]
        : r \in {share_loop(writer(env).s, ids, dest, 0)}})

\* Actions::share / TreeViewController::share: writer, the loop, and commit
\* unless the loop ended early; s is the committed roots afterwards
share_intent(env, ids, dest) ==
    Only({
        IF r.err \/ ~r.res THEN [r EXCEPT !.s = env]
        ELSE [r EXCEPT !.s = commit(env, r.s)]
        : r \in {share_loop(writer(env).s, ids, dest, 0)}})

\* the loop of Actions::cut over the selected (pid, id) pairs
RECURSIVE cut_loop(_, _, _, _)
cut_loop(w, sel, dest, n) ==
    IF sel = <<>> THEN [s |-> w, ret |-> n, res |-> TRUE, err |-> FALSE]
    ELSE Only({
        IF r.err THEN [s |-> r.s, ret |-> n, res |-> FALSE, err |-> TRUE]
        ELSE IF ~r.res THEN [s |-> r.s, ret |-> n, res |-> FALSE, err |-> FALSE]
        ELSE cut_loop(r.s, Tail(sel), dest, n + 1)
        : r \in {cut(w, Head(sel)[1], Head(sel)[2], dest)}})

\* Actions::cut / TreeViewController::cut
cut_intent(env, sel, dest) ==
    Only({
        IF r.err \/ ~r.res THEN [r EXCEPT !.s = env]
        ELSE [r EXCEPT !.s = commit(env, r.s)]
        : r \in {cut_loop(writer(env).s, sel, dest, 0)}})

\* TreeViewController::new: Mode::Normal and an empty StatusView; no
\* wrap_text call, no time parse and no build_flattree call is under way
Idle ==
    [mode |-> "Normal",
     status_view |-> <<>>,
     wrapped |-> [text |-> <<>>, w |-> 0, splits |-> <<>>, done |-> FALSE],
     parsed |-> [input |-> <<>>, form |-> "none", h |-> 0, m |-> 0, pm |-> FALSE,
                 by |-> "none", ok |-> FALSE, hour |-> 0, minute |-> 0],
     builder |-> [state |-> "Idle"],
     tree_view |-> [flattree |-> <<>>, cursor |-> 0, selections |-> {},
                    root_id |-> 0, stack |-> <<>>, halted |-> "no", stale |-> FALSE],
     session_view |-> [items |-> <<>>, cursor |-> 0, start |-> 0, heights |-> <<>>,
                       session_height |-> 0, panicked |-> FALSE]]

ViewIdle ==
    /\ mode = Idle.mode
    /\ status_view = Idle.status_view
    /\ wrapped = Idle.wrapped
    /\ parsed = Idle.parsed
    /\ builder = Idle.builder
    /\ tree_view = Idle.tree_view
    /\ session_view = Idle.session_view

Init ==
    /\ store = create_base
    /\ last = NoOp
    /\ nops = 0
    /\ issued = {}
    /\ txn = NoHandle
    /\ snap = NoHandle
    /\ roots = Slots
    /\ ViewIdle

\* ids with a payload
NodeIds(s) == {e[1] : e \in s.nodes}

\* read-only view: the child ids of id in sibling order
\* (StoreRw::child_ids collected; empty past a missing triple)
children_of(s, id) == child_ids(s, id).ids

SeqRange(q) == {q[i] : i \in 1..Len(q)}

\* The ids a tree view rooted at 0 can show: 0 and whatever the child walks
\* reach from it.  Operations take their node arguments from these, and
\* their (parent, child) arguments from the links between them.
RECURSIVE ReachFrom(_, _, _)
ReachFrom(s, seen, frontier) ==
    IF frontier = {} THEN seen
    ELSE LET new == UNION {SeqRange(children_of(s, p)) : p \in frontier} \ seen
         IN  ReachFrom(s, seen \cup new, new)

Shown(s) == ReachFrom(s, {0}, {0})

ShownLinks(s) == {l \in Shown(s) \X Shown(s) : l[2] \in SeqRange(children_of(s, l[1]))}

\* One write transaction: Store::writer, the operation, StoreWriter::commit.
\* On Err the caller's `?` returns, the StoreWriter is dropped without
\* commit and the six roots stay as they were.
Transact(r, op, a, b, c) ==
    /\ nops < MaxOps
    /\ nops' = nops + 1
    /\ store' = IF r.err THEN store ELSE r.s
    /\ last' = [op |-> op, a |-> a, b |-> b, c |-> c, sel |-> <<>>,
                ret |-> r.ret, res |-> r.res, err |-> r.err]
    /\ issued' = IF op = "add_child" /\ ~r.err THEN issued \cup {r.ret} ELSE issued
    /\ UNCHANGED <<txn, snap, roots, view>>

AddChild ==
    /\ store.id <= MaxId
    /\ \E pid \in Shown(store), data \in Payloads :
         \E r \in {add_child(store, pid, data)} :
            Transact(r, "add_child", pid, data, 0)

Delete ==
    \E l \in ShownLinks(store) :
      \E r \in {delete(store, l[1], l[2])} :
        Transact(r, "delete", l[1], l[2], 0)

MoveUp ==
    \E l \in ShownLinks(store) :
      \E r \in {move_up(store, l[1], l[2])} :
        Transact(r, "move_up", l[1], l[2], 0)

MoveDown ==
    \E l \in ShownLinks(store) :
      \E r \in {move_down(store, l[1], l[2])} :
        Transact(r, "move_down", l[1], l[2], 0)

Share ==
    \E src \in Shown(store), dest \in Shown(store) :
      \E r \in {share(store, src, dest)} :
        Transact(r, "share", src, dest, 0)

Cut ==
    \E l \in ShownLinks(store), dest \in Shown(store) :
      \E r \in {cut(store, l[1], l[2], dest)} :
        Transact(r, "cut", l[1], l[2], dest)

AddSession ==
    \E id \in Shown(store), session \in SessionVals :
      \E r \in {add_session(store, id, session)} :
        Transact(r, "add_session", id, session, 0)

\* StoreWriter::modify in a transaction of its own, for any id
Modify ==
    \E id \in 0..MaxId, data \in Payloads :
      \E r \in {modify(store, id, data)} :
        Transact(r, "modify", id, data, 0)

Next ==
    \/ AddChild
    \/ Delete
    \/ MoveUp
    \/ MoveDown
    \/ Share
    \/ Cut

Spec == Init /\ [][Next]_vars

\* the operations that touch sessions or remove nodes
NextSess ==
    \/ AddChild
    \/ AddSession
    \/ Delete
    \/ Share

SpecSess == Init /\ [][NextSess]_vars

\* the sequences of 1..MaxSel distinct elements of S
Arrangements(S) ==
    {q \in UNION {[1..n -> S] : n \in 1..MaxSel} :
        \A i, j \in 1..Len(q) : q[i] = q[j] => i = j}

\* TreeView::selection_ids: the keys of the selection map, in the order the
\* HashMap yields them; the cursor's id when nothing is selected
selection_ids(S, cursor) ==
    IF S = {} THEN {<<cursor[2]>>} ELSE Arrangements({x[2] : x \in S})

\* TreeView::selections: the selected (pid, id), the pids of one id next to
\* each other, the ids in the order the HashMap yields them; the cursor
\* when nothing is selected
selections(S, cursor) ==
    IF S = {} THEN {<<cursor>>}
    ELSE {q \in Arrangements(S) :
            /\ Len(q) = Cardinality(S)
            /\ \A i, j, k \in 1..Len(q) :
                  (i < j /\ j < k /\ q[i][2] = q[k][2]) => q[j][2] = q[i][2]}

\* the (pid, id) rows of the tree view: the root (its pid is its id) and
\* every link below it
Rows(s) == {<<0, 0>>} \cup ShownLinks(s)

\* what the user can have selected: nothing, or up to MaxSel rows
Selectable(s) == {S \in SUBSET Rows(s) : Cardinality(S) <= MaxSel}

\* Actions::share with the cursor on row `cursor` and the rows S selected
ShareIntent ==
    /\ nops < MaxIntentOps
    /\ \E cursor \in Rows(store), S \in Selectable(store) :
         \E ids \in selection_ids(S, cursor) :
           \E r \in {share_intent(store, ids, cursor[2])} :
              /\ store' = r.s
              /\ last' = [op |-> "share_intent", a |-> cursor[2], b |-> 0, c |-> 0,
                          sel |-> ids, ret |-> r.ret, res |-> r.res, err |-> r.err]
              /\ nops' = nops + 1
              /\ UNCHANGED <<issued, txn, snap, roots, view>>

\* Actions::cut with the cursor on row `cursor` and the rows S selected
CutIntent ==
    /\ nops < MaxIntentOps
    /\ \E cursor \in Rows(store), S \in Selectable(store) :
         \E sel \in selections(S, cursor) :
           \E r \in {cut_intent(store, sel, cursor[2])} :
              /\ store' = r.s
              /\ last' = [op |-> "cut_intent", a |-> cursor[2], b |-> 0, c |-> 0,
                          sel |-> sel, ret |-> r.ret, res |-> r.res, err |-> r.err]
              /\ nops' = nops + 1
              /\ UNCHANGED <<issued, txn, snap, roots, view>>

\* adding nodes, and the intents that act on a selection
NextIntent ==
    \/ AddChild
    \/ ShareIntent
    \/ CutIntent

SpecIntent == Init /\ [][NextIntent]_vars

\* the operations that write payloads
NextModify ==
    \/ AddChild
    \/ Modify
    \/ Delete

SpecModify == Init /\ [][NextModify]_vars

\* ------------------------------------- transactions taken step by step
\* the last step, when it was not a writer operation
Step(op) == [NoOp EXCEPT !.op = op]

\* Store::writer: at most one write transaction at a time
Writer ==
    /\ ~txn.open
    /\ txn' = writer(store)
    /\ last' = Step("writer")
    /\ UNCHANGED <<store, nops, issued, snap, roots, view>>

\* One operation on the open StoreWriter.  It edits the writer's private
\* roots only; on Err the `?` of the caller returns and the writer is
\* dropped.
TxnStep(r, op, a, b, c) ==
    /\ nops < MaxTxnOps
    /\ nops' = nops + 1
    /\ txn' = IF r.err THEN NoHandle ELSE [open |-> TRUE, s |-> r.s]
    /\ last' = [op |-> op, a |-> a, b |-> b, c |-> c, sel |-> <<>>,
                ret |-> r.ret, res |-> r.res, err |-> r.err]
    /\ UNCHANGED <<store, issued, snap, roots, view>>

TxnAddChild ==
    /\ txn.open
    /\ txn.s.id <= MaxId
    /\ \E pid \in Shown(txn.s), data \in Payloads :
         \E r \in {add_child(txn.s, pid, data)} :
            TxnStep(r, "add_child", pid, data, 0)

TxnDelete ==
    /\ txn.open
    /\ \E l \in ShownLinks(txn.s) :
         \E r \in {delete(txn.s, l[1], l[2])} :
            TxnStep(r, "delete", l[1], l[2], 0)

TxnShare ==
    /\ txn.open
    /\ \E src \in Shown(txn.s), dest \in Shown(txn.s) :
         \E r \in {share(txn.s, src, dest)} :
            TxnStep(r, "share", src, dest, 0)

TxnAddSession ==
    /\ txn.open
    /\ \E id \in Shown(txn.s), session \in SessionVals :
         \E r \in {add_session(txn.s, id, session)} :
            TxnStep(r, "add_session", id, session, 0)

\* StoreWriter::commit
Commit ==
    /\ txn.open
    /\ store' = commit(store, txn.s)
    /\ txn' = NoHandle
    /\ last' = Step("commit")
    /\ UNCHANGED <<nops, issued, snap, roots, view>>

\* The StoreWriter goes out of scope without commit: an operation or a
\* B-tree call returned an error (I/O errors propagate through `?`), or
\* the intent returned early.  last.res records whether the writer had
\* edited its roots.
Drop ==
    /\ txn.open
    /\ txn' = NoHandle
    /\ last' = [Step("drop") EXCEPT !.res = (txn.s # store)]
    /\ UNCHANGED <<store, nops, issued, snap, roots, view>>

\* Store::reader, also while a StoreWriter is open
Reader ==
    /\ ~snap.open
    /\ snap' = reader(store)
    /\ last' = Step("reader")
    /\ UNCHANGED <<store, nops, issued, txn, roots, view>>

\* the StoreReader goes out of scope
ReaderDrop ==
    /\ snap.open
    /\ snap' = NoHandle
    /\ last' = Step("reader_drop")
    /\ UNCHANGED <<store, nops, issued, txn, roots, view>>

NextTxn ==
    \/ Writer
    \/ TxnAddChild
    \/ TxnDelete
    \/ TxnShare
    \/ TxnAddSession
    \/ Commit
    \/ Drop
    \/ Reader
    \/ ReaderDrop

SpecTxn == Init /\ [][NextTxn]_vars

\* ------------------------------------------------- opening environments
\* Store::open that does not look for key 0 in NODES
Store_open_no_root_check(rs, s, root_data) ==
    IF rs = Slots THEN [roots |-> rs, s |-> s, err |-> FALSE]
    ELSE IF rs = {}
    THEN [roots |-> Slots,
          s |-> [id |-> 1, links |-> {}, rlinks |-> {}, nodes |-> {<<0, root_data>>},
                 sessions |-> {}, rsessions |-> {}],
          err |-> FALSE]
    ELSE [roots |-> rs, s |-> s, err |-> TRUE]

\* Store::open on an environment whose set root slots are rs and whose
\* contents are s: create_base classifies the six roots.  All set: Ok iff
\* the first NODES entry from key 0 has key 0, nothing is written.  None
\* set: the five B-trees are created, NODES gets (0, root_data), ID_SEQ is
\* 1, commit.  Anything else: invalid_data_error, nothing is written.
Store_open(rs, s, root_data) ==
    IF rs = Slots
    THEN [roots |-> rs, s |-> s,
          err |-> ~(PairGet(s.nodes, 0) # NoneEntry /\ PairGet(s.nodes, 0)[1] = 0)]
    ELSE IF rs = {}
    THEN [roots |-> Slots,
          s |-> [id |-> 1, links |-> {}, rlinks |-> {}, nodes |-> {<<0, root_data>>},
                 sessions |-> {}, rsessions |-> {}],
          err |-> FALSE]
    ELSE [roots |-> rs, s |-> s, err |-> TRUE]

\* contents an environment file may hold in a slot that is set
EnvIds == 1..MaxId
EnvLinks == {{}, {<<0, 1>>}}
EnvRLinks == {{}, {<<1, [pid |-> 0, next |-> 0, prev |-> 0]>>}}
EnvNodes == {{}, {<<0, 1>>}, {<<1, 1>>}, {<<0, 1>>, <<1, 2>>}}
EnvSessions == {{}, {<<1, 1>>}}
EnvRSessions == {{}, {<<1, 1>>}}

\* An environment file as Store::open may find it: any subset of the six
\* roots set (a slot that is not set holds nothing).
InitOpen ==
    /\ roots \in SUBSET Slots
    /\ store \in [id : IF ID_SQ \in roots THEN EnvIds ELSE {0},
                  links : IF DB_LINKS \in roots THEN EnvLinks ELSE {{}},
                  rlinks : IF DB_RLINKS \in roots THEN EnvRLinks ELSE {{}},
                  nodes : IF DB_NODES \in roots THEN EnvNodes ELSE {{}},
                  sessions : IF DB_SESSIONS \in roots THEN EnvSessions ELSE {{}},
                  rsessions : IF DB_RSESSIONS \in roots THEN EnvRSessions ELSE {{}}]
    /\ last = NoOp
    /\ nops = 0
    /\ issued = {}
    /\ txn = NoHandle
    /\ snap = NoHandle
    /\ ViewIdle

\* the program starts (again) on the environment
Open ==
    /\ nops < MaxOpens
    /\ \E root_data \in Payloads :
         \E r \in {Store_open(roots, store, root_data)} :
            /\ roots' = r.roots
            /\ store' = r.s
            /\ last' = [Step("open") EXCEPT !.a = root_data, !.err = r.err]
            /\ nops' = nops + 1
            /\ UNCHANGED <<issued, txn, snap, view>>

SpecOpen == InitOpen /\ [][Open]_vars

\* --------------------------------------------------- derived read views
\* StoreRw::children collected: (id, payload) per child.  The payload lookup
\* takes whatever entry the cursor lands on (no key comparison); None past
\* the last key is invalid_data_error, shown here as the entry <<>>.
children(s, id) ==
    LET ids == children_of(s, id)
    IN  [i \in 1..Len(ids) |-> PairGet(s.nodes, ids[i])]

\* read_session that takes whatever entry the cursor lands on
read_session_any_key(s, id) ==
    LET e == PairGet(s.sessions, id)
    IN  IF e # NoneEntry THEN e[2] ELSE NoneId

\* StoreRw::read_session: the first SESSIONS entry of id
read_session(s, id) ==
    LET e == PairGet(s.sessions, id)
    IN  IF e # NoneEntry /\ e[1] = id THEN e[2] ELSE NoneId

\* btree::iter collected: the entries of an integer-valued index in key
\* order, then value order
RECURSIVE IterPairs(_)
IterPairs(db) ==
    IF db = {} THEN <<>>
    ELSE Only({<<e>> \o IterPairs(db \ {e})
               : e \in {CHOOSE e \in db : \A f \in db : PairLeq(e, f)}})

\* StoreRw::sessions collected: the iterator starts at the first entry of
\* id and stops at the first entry of a greater id
sessions(s, id) == IterPairs({e \in s.sessions : e[1] >= id /\ ~(e[1] > id)})

\* StoreRw::all_sessions collected
all_sessions(s) == IterPairs(s.rsessions)

\* the roots a live StoreReader reads through
reader_view_live == store

\* the roots a StoreReader reads through: the fields it loaded in
\* Store::reader
reader_view == snap.s

\* the RTriples recorded for child c
TriplesOf(s, c) == {e[2] : e \in {f \in s.rlinks : f[1] = c}}

\* parents recorded for child c
ParentsOf(s, c) == {rt.pid : rt \in TriplesOf(s, c)}

\* keys of LINKS
LinkKeys(s) == {e[1] : e \in s.links}

NoDuplicates(q) == \A i, j \in 1..Len(q) : q[i] = q[j] => i = j

\* the walk of p's sibling list ends, repeats no child, and the triple of
\* each walked child names its neighbours in the walk
WalkMatches(s, p) ==
    LET w == child_ids(s, p)
        n == Len(w.ids)
    IN  /\ ~w.err
        /\ ~w.loop
        /\ NoDuplicates(w.ids)
        /\ \A i \in 1..n :
              LET rt == get_rt(s, w.ids[i], p)
              IN  /\ rt # NoneRT
                  /\ rt.prev = (IF i = 1 THEN 0 ELSE w.ids[i - 1])
                  /\ rt.next = (IF i = n THEN 0 ELSE w.ids[i + 1])

\* C1: after every committed transaction, for every parent p the walk from
\* LINKS[p] along next-pointers is finite, visits no child twice, starts at
\* a triple with prev = 0, and every visited child's triple for p has the
\* previously visited child as prev and the following one as next.
C1_SiblingWalkMatches ==
    \A p \in LinkKeys(store) \cup NodeIds(store) : WalkMatches(store, p)

\* a sibling list of three or more has just been reordered
W1_ReorderedList ==
    /\ last.op = "move_down"
    /\ ~last.err
    /\ Len(children_of(store, last.a)) >= 3
    /\ children_of(store, last.a)[1] # last.b

\* C2: after every committed transaction, every child that records p as a
\* parent is reached by walking p's sibling list from LINKS[p].
C2_EveryTripleWalked ==
    \A e \in store.rlinks : e[1] \in SeqRange(children_of(store, e[2].pid))

Descendants(s, from) ==
    LET first == SeqRange(children_of(s, from))
    IN  ReachFrom(s, first, first)

Without(q, x) == SelectSeq(q, LAMBDA y : y # x)

\* the last step was operation op and returned Ok
Ran(op) == last'.op = op /\ ~last'.err

\* C5: when cut(src_parent, src, dest) returns true, children(src_parent)
\* is its previous list without src (order kept), children(dest) is src
\* followed by dest's previous children, and src has no triple for
\* src_parent any more, wherever src stood in src_parent's list.
C5_CutMovesSrc ==
    [][(Ran("cut") /\ last'.res) =>
        LET src_pid == last'.a
            src == last'.b
            dest == last'.c
        IN  /\ children_of(store', src_pid) = Without(children_of(store, src_pid), src)
            /\ children_of(store', dest) = <<src>> \o children_of(store, dest)
            /\ src_pid \notin ParentsOf(store', src)]_vars

\* the recorded parent->child links
ParentLinks(s) == {<<e[2].pid, e[1]>> : e \in s.rlinks}

\* The nodes left without a parent once the link (parent, id) is gone: id
\* if it had no other parent, then every node all of whose parents are
\* already in the set.
RECURSIVE OrphanClosure(_, _)
OrphanClosure(E, R) ==
    LET more == {d \in {l[2] : l \in E} \ R :
                    \A l \in E : l[2] = d => l[1] \in R}
    IN  IF R = {} \/ more = {} THEN R ELSE OrphanClosure(E, R \cup more)

Orphaned(s, parent, id) ==
    LET E == ParentLinks(s) \ {<<parent, id>>}
    IN  OrphanClosure(E, IF \E l \in E : l[2] = id THEN {} ELSE {id})

\* C6: delete(parent, id) removes from NODES exactly the nodes left without
\* a parent; every other node keeps its payload and its own children.
C6_DeleteRemovesOrphansOnly ==
    [][Ran("delete") =>
        LET parent == last'.a
            id == last'.b
            gone == Orphaned(store, parent, id)
        IN  /\ NodeIds(store') = NodeIds(store) \ gone
            /\ store'.nodes = {e \in store.nodes : e[1] \notin gone}
            /\ \A n \in NodeIds(store') \ {parent} :
                    children_of(store', n) = children_of(store, n)
            /\ children_of(store', parent) = Without(children_of(store, parent), id)]_vars

\* C8: share(src, dest) and cut(src_parent, src, dest) return false and
\* leave all six indexes unchanged whenever dest is already a parent of src,
\* or src = dest, or src is an ancestor of dest.
Refusable(s, src, dest) ==
    \/ dest \in ParentsOf(s, src)
    \/ src = dest
    \/ dest \in Descendants(s, src)

C10_AddChildAtHead ==
    [][Ran("add_child") =>
        LET parent == last'.a
            data == last'.b
            id == last'.ret
        IN  /\ id = store.id
            /\ read(store', id) = data
            /\ children(store', parent) = <<<<id, data>>>> \o children(store, parent)
            /\ (nops' = 2 /\ id = 2 /\ parent = 1) =>
                    /\ children_of(store', 0) = <<1>>
                    /\ children_of(store', 1) = <<2>>]_vars

W10_AddedInFront ==
    /\ last.op = "add_child"
    /\ ~last.err
    /\ Len(children_of(store, last.a)) >= 2
    /\ children_of(store, last.a)[1] = last.ret

\* C7: when delete orphans a node its SESSIONS and RSESSIONS entries are
\* erased: after the commit no session is attached to an id absent from
\* NODES.
C7_NoSessionOfRemovedNode ==
    /\ \A e \in store.sessions : e[1] \in NodeIds(store)
    /\ \A e \in store.rsessions : e[2] \in NodeIds(store)

\* position of x in q
Pos(q, x) == CHOOSE i \in 1..Len(q) : q[i] = x

\* q with the elements at positions i and i + 1 exchanged
SwapAt(q, i) ==
    [k \in 1..Len(q) |-> IF k = i THEN q[i + 1] ELSE IF k = i + 1 THEN q[i] ELSE q[k]]

\* the sibling lists of every parent but p, the payloads, the sessions and
\* ID_SEQ are the same in s and t
SameButListOf(s, t, p) ==
    /\ \A q \in (LinkKeys(s) \cup NodeIds(s) \cup LinkKeys(t)) \ {p} :
            children_of(t, q) = children_of(s, q)
    /\ t.nodes = s.nodes
    /\ t.sessions = s.sessions
    /\ t.rsessions = s.rsessions
    /\ t.id = s.id

\* C11: move_up(parent, id) exchanges id with its immediate predecessor in
\* parent's sibling order, move_down(parent, id) with its immediate
\* successor; every other parent's list is unchanged, and the whole store
\* is unchanged when id is already the head (resp. the tail).
C11_MoveSwapsNeighbours ==
    [][/\ Ran("move_up") =>
            LET before == children_of(store, last'.a)
                i == Pos(before, last'.b)
            IN  IF i = 1 THEN store' = store
                ELSE /\ children_of(store', last'.a) = SwapAt(before, i - 1)
                     /\ SameButListOf(store, store', last'.a)
       /\ Ran("move_down") =>
            LET before == children_of(store, last'.a)
                i == Pos(before, last'.b)
            IN  IF i = Len(before) THEN store' = store
                ELSE /\ children_of(store', last'.a) = SwapAt(before, i)
                     /\ SameButListOf(store, store', last'.a)]_vars

\* the tail of a list of three has just been moved up to the middle
W11_MovedToMiddle ==
    /\ last.op = "move_up"
    /\ ~last.err
    /\ Len(children_of(store, last.a)) = 3
    /\ children_of(store, last.a)[2] = last.b

\* every id that occurs in NODES, LINKS or RLINKS (0 in a next or prev
\* field stands for "none")
UsedIds(s) ==
    NodeIds(s)
    \cup {e[1] : e \in s.links} \cup {e[2] : e \in s.links}
    \cup {e[1] : e \in s.rlinks} \cup {e[2].pid : e \in s.rlinks}
    \cup {e[2].next : e \in s.rlinks} \cup {e[2].prev : e \in s.rlinks}

\* C12: after every commit ID_SEQ is strictly greater than every id that
\* occurs in NODES, LINKS or RLINKS, ID_SEQ never decreases across commits,
\* and add_child never returns an id that an earlier committed add_child
\* returned, even after that node was deleted.
C12_IdsNeverReused ==
    /\ \A i \in UsedIds(store) : i < store.id
    /\ [][/\ \A i \in UsedIds(store') : i < store'.id
          /\ store'.id >= store.id
          /\ Ran("add_child") => last'.ret \notin issued]_vars

\* add_child has returned a new id after an earlier node was deleted
W12_AddAfterDelete ==
    /\ last.op = "add_child"
    /\ ~last.err
    /\ last.ret \in NodeIds(store)
    /\ \E i \in issued : i \notin NodeIds(store)

\* C13: after every committed transaction (id, session) is in SESSIONS if
\* and only if (session, id) is in RSESSIONS, also when one session is
\* attached to several ids and several sessions to one id.
C13_SessionsInverse ==
    /\ \A e \in store.sessions : <<e[2], e[1]>> \in store.rsessions
    /\ \A e \in store.rsessions : <<e[2], e[1]>> \in store.sessions

\* a delete has committed while one id carries two sessions and one session
\* is attached to two ids
W13_SharedSessionsAfterDelete ==
    /\ last.op = "delete"
    /\ ~last.err
    /\ \E e, f \in store.sessions : e[1] = f[1] /\ e[2] # f[2]
    /\ \E e, f \in store.sessions : e[1] # f[1] /\ e[2] = f[2]

\* add_child(p, X) followed by delete(p, new_id), from s
AddThenDelete(s, p, X) ==
    Only({IF a.err THEN a ELSE delete(a.s, p, a.ret)
          : a \in {add_child(s, p, X)}})

ShareThenDelete(s, src, dest) ==
    Only({IF sh.err \/ ~sh.res THEN sh ELSE delete(sh.s, dest, src)
          : sh \in {share(s, src, dest)}})

\* C15: for every store state in which share(s, d) returns true, following
\* it with delete(d, s) restores all six indexes exactly.
C15_ShareThenDeleteRestores ==
    \A src \in NodeIds(store), dest \in NodeIds(store) :
        LET sh == share(store, src, dest)
            r == ShareThenDelete(store, src, dest)
        IN  (~sh.err /\ sh.res) => (~r.err /\ r.s = store)

\* C16: modify(id, payload), for any id, changes nothing but the payload
\* stored under NODES[id]: LINKS, RLINKS, SESSIONS, RSESSIONS, ID_SEQ, the
\* payloads of all other ids and the key set of NODES are unchanged.
C16_ModifyChangesPayloadOnly ==
    [][Ran("modify") =>
        /\ store'.links = store.links
        /\ store'.rlinks = store.rlinks
        /\ store'.sessions = store.sessions
        /\ store'.rsessions = store.rsessions
        /\ store'.id = store.id
        /\ {e \in store'.nodes : e[1] # last'.a} = {e \in store.nodes : e[1] # last'.a}
        /\ NodeIds(store') = NodeIds(store)]_vars

\* C17: a write transaction is all-or-nothing.  When the writer is dropped
\* without commit (after an error or an early return) the committed roots
\* are what they were, and every reader or writer opened afterwards starts
\* from them; a commit publishes all the writer's roots, ID_SEQ included,
\* in one step; nothing else changes the committed roots.
C17_TxnAllOrNothing ==
    [][/\ (txn.open /\ ~txn'.open /\ last'.op # "commit") => store' = store
       /\ last'.op = "commit" => store' = txn.s
       /\ last'.op = "writer" => txn'.s = store
       /\ last'.op = "reader" => snap'.s = store
       /\ store' # store => last'.op = "commit"]_vars

\* a writer that had edited its roots was dropped and a later commit has
\* not yet happened
W17_EditsDropped ==
    /\ last.op = "drop"
    /\ last.res
    /\ nops >= 2

\* what the five read accessors return on the roots v, for every id
ReaderResults(v) ==
    [read |-> [i \in 0..(MaxId + 1) |-> read(v, i)],
     read_session |-> [i \in 0..(MaxId + 1) |-> read_session(v, i)],
     children |-> [i \in 0..(MaxId + 1) |-> children(v, i)],
     sessions |-> [i \in 0..(MaxId + 1) |-> sessions(v, i)],
     all_sessions |-> all_sessions(v)]

\* C18: a reader returns the same results from read, read_session,
\* children, sessions and all_sessions for its whole lifetime, whatever
\* writer operations and commits happen after it was opened, and what it
\* returns is a committed state, never a partially applied edit.
C18_ReaderSnapshotStable ==
    [][/\ (snap.open /\ snap'.open) =>
            ReaderResults(reader_view') = ReaderResults(reader_view)
       /\ last'.op = "reader" =>
            ReaderResults(reader_view') = ReaderResults(store)]_vars

\* a commit has changed what a new reader would return while an older
\* reader is still open
W18_ReaderOutlivesCommit ==
    /\ snap.open
    /\ last.op = "commit"
    /\ nops >= 2
    /\ ReaderResults(snap.s) # ReaderResults(store)

\* C19: open classifies the environment by its six root pointers.  All
\* absent: it commits empty indexes with NODES = {0 -> root payload} and
\* ID_SEQ = 1.  All present: it succeeds iff NODES contains key 0 and
\* changes nothing.  Any other combination: the invalid-data error, and
\* nothing is modified.
C19_OpenClassifiesRoots ==
    [][last'.op = "open" =>
        IF roots = {}
        THEN /\ ~last'.err
             /\ roots' = Slots
             /\ store' = [id |-> 1, links |-> {}, rlinks |-> {},
                          nodes |-> {<<0, last'.a>>},
                          sessions |-> {}, rsessions |-> {}]
        ELSE /\ store' = store
             /\ roots' = roots
             /\ IF roots = Slots THEN last'.err <=> (0 \notin NodeIds(store))
                ELSE last'.err]_vars

\* an initialized store with links and sessions has been opened again
W19_Reopened ==
    /\ last.op = "open"
    /\ ~last.err
    /\ nops = 2
    /\ store.id > 1
    /\ store.links # {}
    /\ store.sessions # {}

\* C20: a Share or Cut intent over a selection is all-or-nothing.  When
\* share/cut returns false for a selected element nothing of the intent is
\* committed, the elements processed before it included; when all return
\* true, all are committed together: every selected node has the cursor
\* node as a parent and, for Cut, no longer the parent it was cut from.
C20_IntentAllOrNothing ==
    [][/\ (last'.op \in {"share_intent", "cut_intent"} /\ ~last'.err /\ ~last'.res)
            => store' = store
       /\ (last'.op = "share_intent" /\ ~last'.err /\ last'.res) =>
            /\ last'.ret = Len(last'.sel)
            /\ \A i \in 1..Len(last'.sel) :
                  last'.a \in ParentsOf(store', last'.sel[i])
       /\ (last'.op = "cut_intent" /\ ~last'.err /\ last'.res) =>
            /\ last'.ret = Len(last'.sel)
            /\ \A i \in 1..Len(last'.sel) :
                  /\ last'.a \in ParentsOf(store', last'.sel[i][2])
                  /\ last'.sel[i][1] \notin ParentsOf(store', last'.sel[i][2])]_vars

\* a Share intent over two selected nodes was refused at the second one,
\* after the first share had returned true
W20_SecondRefused ==
    /\ last.op = "share_intent"
    /\ ~last.err
    /\ ~last.res
    /\ Len(last.sel) = 2
    /\ last.ret = 1
    /\ last.a \notin ParentsOf(store, last.sel[1])

\* ------------------------------------------------- text wrap (node.rs)
\* texts of one run of wrap_text: up to MaxText chars
MaxText == 5
\* widths of one run of wrap_text: 0..MaxWidth columns
MaxWidth == 3

\* A text is a sequence of chars.  "e2" stands for a char of two UTF-8
\* bytes (e-acute), every other char here takes one byte; "a" and "b" are
\* letters of words, " " is the only char wrap_text tells apart.
Chars == {" ", "a", "e2"}

\* char::len_utf8
len_utf8(ch) == IF ch = "e2" THEN 2 ELSE 1

\* str::len: the bytes of the text
RECURSIVE str_len(_)
str_len(text) ==
    IF text = <<>> THEN 0 ELSE len_utf8(Head(text)) + str_len(Tail(text))

\* str::char_indices: each char with the byte offset it starts at
RECURSIVE char_indices(_, _)
char_indices(text, pos) ==
    IF text = <<>> THEN <<>>
    ELSE <<<<pos, Head(text)>>>> \o char_indices(Tail(text), pos + len_utf8(Head(text)))

\* the locals of wrap_text before its loop; pushed is a history of the
\* pushes of line 119: the index pushed and the byte offset beg at that moment
wrap_locals ==
    [splits |-> <<>>, i |-> 0, beg |-> 0, alt_beg |-> 0,
     in_a_word |-> FALSE, long_word |-> FALSE, d |-> 0, pushed |-> <<>>]

\* a space after a word: the word ends
word_end(st, j, pos, diff, w) ==
    Only({
        Only({[b EXCEPT !.in_a_word = FALSE, !.long_word = FALSE]
              : b \in {IF (j + a.d) % w = 0
                       THEN [a EXCEPT !.splits = Append(@, pos), !.i = j, !.beg = pos]
                       ELSE IF diff > 0
                       THEN IF ~a.long_word
                            THEN [a EXCEPT !.splits = Append(@, a.beg),
                                           !.d = (@ + w) - ((a.i + @) % w)]
                            ELSE [a EXCEPT !.splits = Append(@, a.alt_beg)]
                       ELSE a}})
        : a \in {IF j - st.i = w /\ ~st.long_word
                 THEN [st EXCEPT !.splits = IF @ = <<>> \/ @[Len(@)] # st.i
                                            THEN Append(@, st.i) ELSE @,
                                 !.pushed = IF st.splits = <<>>
                                               \/ st.splits[Len(st.splits)] # st.i
                                            THEN Append(@, <<st.i, st.beg>>) ELSE @,
                                 !.d = (@ + w) - ((st.i + @) % w)]
                 ELSE st}})

\* a further char of a word, in a wrap_text that never cuts a word
word_char_uncut(st, j, pos, w) ==
    IF (j + st.d) % w = 0 THEN [st EXCEPT !.alt_beg = pos] ELSE st

\* a further char of a word: a word of more than w chars is cut
word_char(st, j, pos, w) ==
    Only({
        IF j - a.i = w
        THEN [a EXCEPT !.splits = Append(@, a.alt_beg), !.i = j, !.beg = pos,
                       !.alt_beg = pos, !.long_word = TRUE]
        ELSE a
        : a \in {IF (j + st.d) % w = 0 THEN [st EXCEPT !.alt_beg = pos] ELSE st}})

\* the body of the loop of wrap_text for the j-th char, ch at byte pos: a
\* space after a word, a space after a space, the first char of a word, a
\* further char of a word
wrap_char(st, j, pos, ch, w) ==
    IF ch = " "
    THEN IF st.in_a_word
         THEN Only({word_end(st, j, pos, diff, w)
                    : diff \in {((j + st.d) \div w) - ((st.i + st.d) \div w)}})
         ELSE IF (j + st.d) % w = 0
              THEN [st EXCEPT !.splits = Append(@, pos), !.i = j, !.beg = pos]
              ELSE st
    ELSE IF ~st.in_a_word
         THEN [st EXCEPT !.splits = IF (j + st.d) % w = 0 THEN Append(@, pos) ELSE @,
                         !.i = j, !.beg = pos, !.in_a_word = TRUE]
         ELSE word_char(st, j, pos, w)

\* the loop of wrap_text over items[j + 1 ..], the chars with their offsets
RECURSIVE wrap_loop(_, _, _, _)
wrap_loop(st, items, j, w) ==
    IF j >= Len(items) THEN st
    ELSE Only({wrap_loop(n, items, j + 1, w)
               : n \in {wrap_char(st, j, items[j + 1][1], items[j + 1][2], w)}})

\* wrap_text that returns no split for the empty text
wrap_text_empty(text, w) ==
    IF w = 0 THEN <<0, 0>>
    ELSE IF text = <<>> THEN <<>>
    ELSE Only({
        Only({IF len > 0 /\ st.splits[Len(st.splits)] # len
              THEN Append(st.splits, len) ELSE st.splits
              : st \in {Only({wrap_loop(wrap_locals, items, 0, w)
                              : items \in {Append(char_indices(text, 0), <<len, " ">>)}})}})
        : len \in {str_len(text)}})

\* wrap_text: the loop over the chars and a closing space, then the final
\* split at text.len()
wrap_text(text, w) ==
    IF w = 0 THEN <<0, 0>>
    ELSE Only({
        Only({IF len > 0 /\ st.splits[Len(st.splits)] # len
              THEN Append(st.splits, len) ELSE st.splits
              : st \in {Only({wrap_loop(wrap_locals, items, 0, w)
                              : items \in {Append(char_indices(text, 0), <<len, " ">>)}})}})
        : len \in {str_len(text)}})

\* the pushes of line 119 in one run of wrap_text, each with the byte
\* offset of the first char of the word it moves
wrap_pushes(text, w) ==
    IF w = 0 THEN <<>>
    ELSE Only({wrap_loop(wrap_locals, items, 0, w).pushed
               : items \in {Append(char_indices(text, 0), <<str_len(text), " ">>)}})

\* the text of scenario E, "aaaaaa bb"
ScenarioE == <<"a", "a", "a", "a", "a", "a", " ", "b", "b">>

\* wrap_text is about to be called on a text and a width
InitWrap ==
    /\ store = create_base
    /\ last = NoOp
    /\ nops = 0
    /\ issued = {}
    /\ txn = NoHandle
    /\ snap = NoHandle
    /\ roots = Slots
    /\ mode = Idle.mode
    /\ status_view = Idle.status_view
    /\ wrapped \in [text : UNION {[1..n -> Chars] : n \in 0..MaxText} \cup {ScenarioE},
                    w : 0..MaxWidth, splits : {<<>>}, done : {FALSE}]
    /\ parsed = Idle.parsed
    /\ builder = Idle.builder
    /\ tree_view = Idle.tree_view
    /\ session_view = Idle.session_view

\* the call returns
WrapText ==
    /\ ~wrapped.done
    /\ wrapped' = [wrapped EXCEPT !.splits = wrap_text(wrapped.text, wrapped.w),
                                  !.done = TRUE]
    /\ UNCHANGED <<store, last, nops, issued, txn, snap, roots, mode, status_view,
                   parsed, builder, tree_view, session_view>>

SpecWrap == InitWrap /\ [][WrapText]_vars

\* the bytes of a text, each with the number of the char it belongs to and
\* its place in that char
RECURSIVE as_bytes(_, _)
as_bytes(text, n) ==
    IF text = <<>> THEN <<>>
    ELSE [k \in 1..len_utf8(Head(text)) |-> <<n, k>>] \o as_bytes(Tail(text), n + 1)

\* &text[a..b] is defined: a <= b <= text.len(), both on char boundaries
Sliceable(bytes, a, b) ==
    /\ 0 <= a /\ a <= b /\ b <= Len(bytes)
    /\ a < Len(bytes) => bytes[a + 1][2] = 1
    /\ b < Len(bytes) => bytes[b + 1][2] = 1

\* the chars of &text[a..b]
Columns(bytes, a, b) == Cardinality({k \in (a + 1)..b : bytes[k][2] = 1})

RECURSIVE Concat(_)
Concat(qs) == IF qs = <<>> THEN <<>> ELSE Head(qs) \o Concat(Tail(qs))

\* what Node::name_splits yields: the slice between each two adjacent splits
Slices(bytes, splits) ==
    [k \in 1..(Len(splits) - 1) |-> SubSeq(bytes, splits[k] + 1, splits[k + 1])]

\* C27: for every text and every W >= 1 the splits wrap_text returns are
\* non-decreasing, start at 0 and (for a non-empty text) end at text.len(),
\* every slice between adjacent splits is a slice of the text, the slices
\* concatenated give the text back, and no slice has more than W columns.
C27_WrapSplitsPartitionText ==
    (wrapped.done /\ wrapped.w >= 1) =>
        LET sp == wrapped.splits
            bytes == as_bytes(wrapped.text, 1)
        IN  /\ Len(sp) >= 1
            /\ sp[1] = 0
            /\ wrapped.text # <<>> => sp[Len(sp)] = Len(bytes)
            /\ \A k \in 1..(Len(sp) - 1) :
                  /\ sp[k] <= sp[k + 1]
                  /\ Sliceable(bytes, sp[k], sp[k + 1])
                  /\ Columns(bytes, sp[k], sp[k + 1]) <= wrapped.w
            /\ (\A k \in 1..(Len(sp) - 1) : Sliceable(bytes, sp[k], sp[k + 1]))
                  => Concat(Slices(bytes, sp)) = bytes

\* C28 as stated: wrap("aaaaaa bb", 3) returns the splits [0, 3, 6, 7, 9],
\* the lines "aaa", "aaa", " ", "bb".
C28_ScenarioE_AsStated ==
    (wrapped.done /\ wrapped.text = ScenarioE /\ wrapped.w = 3) =>
        wrapped.splits = <<0, 3, 6, 7, 9>>

\* C28 amended: wrap("aaaaaa bb", 3) returns the splits [0, 3, 6, 9], the
\* lines "aaa", "aaa", " bb": the long word is cut at every third column and
\* the space and the next word, three columns together, share the last line.
C28_ScenarioE ==
    (wrapped.done /\ wrapped.text = ScenarioE /\ wrapped.w = 3) =>
        /\ wrapped.splits = <<0, 3, 6, 9>>
        /\ Slices(as_bytes(ScenarioE, 1), wrapped.splits)
             = << <<<<1, 1>>, <<2, 1>>, <<3, 1>>>>,
                  <<<<4, 1>>, <<5, 1>>, <<6, 1>>>>,
                  <<<<7, 1>>, <<8, 1>>, <<9, 1>>>> >>

W28_ScenarioWrapped ==
    wrapped.done /\ wrapped.text = ScenarioE /\ wrapped.w = 3

\* C29 as stated: wrap_text of the empty text returns no split for every
\* W >= 1, and [0, 0] for W = 0.
C29_EmptyText_AsStated ==
    (wrapped.done /\ wrapped.text = <<>>) =>
        wrapped.splits = (IF wrapped.w = 0 THEN <<0, 0>> ELSE <<>>)

\* C29 amended: wrap_text of the empty text returns [0] for every W >= 1,
\* and [0, 0] for W = 0; every result has at least one split, so
\* splits.len() - 1 is the line count of every text: 0 lines for the empty
\* text (1 for W = 0).
C29_EmptyText ==
    wrapped.done =>
        /\ Len(wrapped.splits) - 1 >= 0
        /\ wrapped.text = <<>> =>
              wrapped.splits = (IF wrapped.w = 0 THEN <<0, 0>> ELSE <<0>>)

W29_EmptyWrapped ==
    wrapped.done /\ wrapped.text = <<>> /\ wrapped.w >= 1 /\ Len(wrapped.splits) - 1 = 0

\* C39: for a text with a char of more than one byte and W >= 1, every split
\* wrap_text returns is a byte offset on a char boundary of the text, the
\* splits are non-decreasing (so every slice between adjacent splits is
\* defined), and the index pushed when a word of exactly W chars moves to the
\* next line is the byte offset of the first char of that word.
C39_SplitsAreByteOffsets ==
    (wrapped.done /\ wrapped.w >= 1 /\ \E k \in DOMAIN wrapped.text : len_utf8(wrapped.text[k]) > 1) =>
        LET sp == wrapped.splits
            bytes == as_bytes(wrapped.text, 1)
            pushes == wrap_pushes(wrapped.text, wrapped.w)
        IN  /\ \A k \in 1..Len(sp) : Sliceable(bytes, sp[k], sp[k])
            /\ \A k \in 1..(Len(sp) - 1) : sp[k] <= sp[k + 1]
            /\ \A k \in 1..Len(pushes) : pushes[k][1] = pushes[k][2]

\* ------------------------------------------- time grammar (parser.rs)
\* hours typed in one run: -1..MaxHour
MaxHour == 13
\* minutes typed in one run: 0..MaxMinute
MaxMinute == 61

Digits == <<"0", "1", "2", "3", "4", "5", "6", "7", "8", "9">>

\* AsChar::is_dec_digit and AsChar::is_space
is_dec_digit(ch) == \E k \in 1..10 : Digits[k] = ch
is_space(ch) == ch \in {" ", "\t"}

\* str::parse::<u32>: an optional "+", then one or more decimal digits whose
\* value fits 32 bits.  Up to nine digits always fit; longer texts are not
\* typed here and are taken as not fitting.
RECURSIVE digits_value(_, _)
digits_value(q, acc) ==
    IF q = <<>> THEN acc
    ELSE digits_value(Tail(q), acc * 10 + ((CHOOSE k \in 1..10 : Digits[k] = Head(q)) - 1))

parse_u32(q) ==
    Only({
        IF body # <<>> /\ (\A k \in 1..Len(body) : is_dec_digit(body[k]))
              /\ Len(body) <= 9
        THEN [ok |-> TRUE, v |-> digits_value(body, 0)]
        ELSE [ok |-> FALSE, v |-> 0]
        : body \in {IF q # <<>> /\ Head(q) = "+" THEN Tail(q) ELSE q}})

\* a parser returned Err: ErrMode::Backtrack, after which alt tries its next
\* alternative, or ErrMode::Cut, which alt hands to its caller at once
Rejected == [ok |-> FALSE, cut |-> FALSE, hour |-> 0, minute |-> 0, rest |-> <<>>]
ErrCut == [ok |-> FALSE, cut |-> TRUE, hour |-> 0, minute |-> 0, rest |-> <<>>]

\* take_while0(AsChar::is_space)
RECURSIVE skip_spaces(_)
skip_spaces(s) ==
    IF s # <<>> /\ is_space(Head(s)) THEN skip_spaces(Tail(s)) ELSE s

\* alt((alt((tag("am"), tag("AM"))).map(|_| 0),
\*      alt((tag("pm"), tag("PM"))).map(|_| 12)))
meridiem(s) ==
    IF Len(s) < 2 THEN [ok |-> FALSE, delta |-> 0, rest |-> s]
    ELSE Only({
        IF t \in {<<"a", "m">>, <<"A", "M">>}
        THEN [ok |-> TRUE, delta |-> 0, rest |-> SubSeq(s, 3, Len(s))]
        ELSE IF t \in {<<"p", "m">>, <<"P", "M">>}
        THEN [ok |-> TRUE, delta |-> 12, rest |-> SubSeq(s, 3, Len(s))]
        ELSE [ok |-> FALSE, delta |-> 0, rest |-> s]
        : t \in {SubSeq(s, 1, 2)}})

\* NaiveTime::from_hms_opt(h, m, 0)
from_hms_opt(h, m, rest) ==
    IF h < 24 /\ m < 60
    THEN [ok |-> TRUE, cut |-> FALSE, hour |-> h, minute |-> m, rest |-> rest]
    ELSE ErrCut

\* the hour of day that leaves 12 as it is
hour_of_day_keeps_12(hour, delta) ==
    Only({
        IF ~p.ok \/ p.v > 12 THEN [ok |-> FALSE, v |-> 0]
        ELSE [ok |-> TRUE, v |-> p.v + delta]
        : p \in {parse_u32(hour)}})

\* the hour of day of proper_time and quick_time: the hour text parsed,
\* refused above 12, 12 taken as 0, delta added
hour_of_day(hour, delta) ==
    Only({
        IF ~p.ok \/ p.v > 12 THEN [ok |-> FALSE, v |-> 0]
        ELSE [ok |-> TRUE, v |-> (IF p.v = 12 THEN 0 ELSE p.v) + delta]
        : p \in {parse_u32(hour)}})

\* the chars of s before the first ":", if there is one: take_until1(":")
colon_at(s) ==
    IF \E k \in 1..Len(s) : s[k] = ":"
    THEN CHOOSE k \in 1..Len(s) : s[k] = ":" /\ \A l \in 1..(k - 1) : s[l] # ":"
    ELSE 0

\* proper_time
proper_time(s) ==
    Only({
        IF k <= 1 \/ Len(s) < k + 2 THEN Rejected
        ELSE Only({
            IF ~mer.ok THEN Rejected
            ELSE Only({
                IF ~h.ok \/ ~m.ok THEN ErrCut
                ELSE from_hms_opt(h.v, m.v, mer.rest)
                : h \in {hour_of_day(SubSeq(s, 1, k - 1), mer.delta)},
                  m \in {parse_u32(SubSeq(s, k + 1, k + 2))}})
            : mer \in {meridiem(skip_spaces(SubSeq(s, k + 3, Len(s))))}})
        : k \in {colon_at(s)}})

\* the leading decimal digits of s: take_while1(AsChar::is_dec_digit)
RECURSIVE digits_prefix(_)
digits_prefix(s) ==
    IF s # <<>> /\ is_dec_digit(Head(s)) THEN <<Head(s)>> \o digits_prefix(Tail(s))
    ELSE <<>>

\* quick_time
quick_time(s) ==
    Only({
        IF hour = <<>> THEN Rejected
        ELSE Only({
            IF ~mer.ok THEN Rejected
            ELSE Only({
                IF ~h.ok THEN ErrCut ELSE from_hms_opt(h.v, 0, mer.rest)
                : h \in {hour_of_day(hour, mer.delta)}})
            : mer \in {meridiem(skip_spaces(SubSeq(s, Len(hour) + 1, Len(s))))}})
        : hour \in {digits_prefix(s)}})

\* what the user types for a number: its decimal digits, "-" before them
\* when it is negative
RECURSIVE typed_number(_)
typed_number(n) ==
    IF n < 0 THEN <<"-">> \o typed_number(0 - n)
    ELSE IF n < 10 THEN <<Digits[n + 1]>>
    ELSE typed_number(n \div 10) \o <<Digits[(n % 10) + 1]>>

\* a time as typed: the hour, with a leading zero or not; for the proper
\* form ":" and the minute in at least two digits; spaces; the meridiem
typed_time(form, h, m, pad, sp, mer) ==
    (IF pad THEN <<"0">> ELSE <<>>) \o typed_number(h)
    \o (IF form = "proper"
        THEN <<":">> \o (IF m < 10 THEN <<"0">> ELSE <<>>) \o typed_number(m)
        ELSE <<>>)
    \o [k \in 1..sp |-> " "] \o mer

\* a time text is about to be parsed
InitTime ==
    /\ store = create_base
    /\ last = NoOp
    /\ nops = 0
    /\ issued = {}
    /\ txn = NoHandle
    /\ snap = NoHandle
    /\ roots = Slots
    /\ mode = Idle.mode
    /\ status_view = Idle.status_view
    /\ wrapped = Idle.wrapped
    /\ builder = Idle.builder
    /\ tree_view = Idle.tree_view
    /\ session_view = Idle.session_view
    /\ \E form \in {"proper", "quick"}, h \in (0 - 1)..MaxHour, pad \in BOOLEAN,
          sp \in 0..1,
          mer \in {<<"a", "m">>, <<"A", "M">>, <<"p", "m">>, <<"P", "M">>} :
         \E m \in (IF form = "proper" THEN 0..MaxMinute ELSE {0}) :
            parsed = [input |-> typed_time(form, h, m, pad, sp, mer), form |-> form,
                      h |-> h, m |-> m, pm |-> mer[1] \in {"p", "P"},
                      by |-> "none", ok |-> FALSE, hour |-> 0, minute |-> 0]

\* proper_time is tried on the text
ProperTime ==
    /\ parsed.by = "none"
    /\ \E r \in {proper_time(parsed.input)} :
         parsed' = [parsed EXCEPT !.by = "proper_time", !.ok = r.ok,
                                  !.hour = r.hour, !.minute = r.minute]
    /\ UNCHANGED <<store, last, nops, issued, txn, snap, roots, mode, status_view,
                   wrapped, builder, tree_view, session_view>>

\* quick_time is tried on the text
QuickTime ==
    /\ parsed.by = "none"
    /\ \E r \in {quick_time(parsed.input)} :
         parsed' = [parsed EXCEPT !.by = "quick_time", !.ok = r.ok,
                                  !.hour = r.hour, !.minute = r.minute]
    /\ UNCHANGED <<store, last, nops, issued, txn, snap, roots, mode, status_view,
                   wrapped, builder, tree_view, session_view>>

NextTime ==
    \/ ProperTime
    \/ QuickTime

SpecTime == InitTime /\ [][NextTime]_vars

\* C30: proper_time on "h:mm am|pm" and quick_time on "h am|pm" accept the
\* hour h iff 0 <= h <= 12 (proper_time also needs the minute in 0..59 and
\* rejects every other minute); the hour of day they return is h mod 12 for
\* am and h mod 12 + 12 for pm, always in 0..23, so 12am is 0, 12pm is 12
\* and 0pm is 12; the minute is the typed one, 0 for quick_time.
C30_HourOfDay ==
    LET h == parsed.h
        shift == IF parsed.pm THEN 12 ELSE 0
    IN  /\ (parsed.by = "proper_time" /\ parsed.form = "proper") =>
              /\ parsed.ok <=> (0 <= h /\ h <= 12 /\ parsed.m <= 59)
              /\ parsed.ok => /\ parsed.hour = (h % 12) + shift
                              /\ parsed.hour \in 0..23
                              /\ parsed.minute = parsed.m
        /\ (parsed.by = "quick_time" /\ parsed.form = "quick") =>
              /\ parsed.ok <=> (0 <= h /\ h <= 12)
              /\ parsed.ok => /\ parsed.hour = (h % 12) + shift
                              /\ parsed.hour \in 0..23
                              /\ parsed.minute = 0

\* 12:59 pm was parsed by proper_time into 12:59 of the 24-hour day
W30_NoonParsed ==
    /\ parsed.by = "proper_time" /\ parsed.form = "proper"
    /\ parsed.h = 12 /\ parsed.pm /\ parsed.m = 59
    /\ parsed.ok /\ parsed.hour = 12 /\ parsed.minute = 59
\* ------------------------------------- session grammar (parser.rs)
\* the letters tag_no_case folds
Uppers == <<"A", "B", "C", "D", "E", "F", "G", "H", "I", "J", "K", "L", "M", "N", "O", "P", "Q", "R", "S", "T", "U", "V", "W", "X", "Y", "Z">>
Lowers == <<"a", "b", "c", "d", "e", "f", "g", "h", "i", "j", "k", "l", "m", "n", "o", "p", "q", "r", "s", "t", "u", "v", "w", "x", "y", "z">>

to_lower(ch) ==
    IF \E k \in 1..Len(Uppers) : Uppers[k] = ch
    THEN Lowers[CHOOSE k \in 1..Len(Uppers) : Uppers[k] = ch] ELSE ch
to_upper(ch) ==
    IF \E k \in 1..Len(Lowers) : Lowers[k] = ch
    THEN Uppers[CHOOSE k \in 1..Len(Lowers) : Lowers[k] = ch] ELSE ch

\* the keywords of date, and " to "
Words ==
    [today |-> <<"t", "o", "d", "a", "y">>,
     yesterday |-> <<"y", "e", "s", "t", "e", "r", "d", "a", "y">>,
     tmrw |-> <<"t", "m", "r", "w">>,
     tomorrow |-> <<"t", "o", "m", "o", "r", "r", "o", "w">>,
     to |-> <<" ", "t", "o", " ">>]

\* the names of the weekdays, Weekday::Mon first: the long and the short one
DayNames ==
    <<[long |-> <<"m", "o", "n", "d", "a", "y">>, short |-> <<"m", "o", "n">>],
      [long |-> <<"t", "u", "e", "s", "d", "a", "y">>, short |-> <<"t", "u", "e">>],
      [long |-> <<"w", "e", "d", "n", "e", "s", "d", "a", "y">>, short |-> <<"w", "e", "d">>],
      [long |-> <<"t", "h", "u", "r", "s", "d", "a", "y">>, short |-> <<"t", "h", "u">>],
      [long |-> <<"f", "r", "i", "d", "a", "y">>, short |-> <<"f", "r", "i">>],
      [long |-> <<"s", "a", "t", "u", "r", "d", "a", "y">>, short |-> <<"s", "a", "t">>],
      [long |-> <<"s", "u", "n", "d", "a", "y">>, short |-> <<"s", "u", "n">>]>>

\* tag: the rest of s after the word t, when s starts with it
tag(s, t) ==
    IF Len(s) >= Len(t) /\ SubSeq(s, 1, Len(t)) = t
    THEN [ok |-> TRUE, rest |-> SubSeq(s, Len(t) + 1, Len(s))]
    ELSE [ok |-> FALSE, rest |-> s]

\* tag_no_case: the same, letters compared without their case
tag_no_case(s, t) ==
    IF Len(s) >= Len(t) /\ \A k \in 1..Len(t) : to_lower(s[k]) = to_lower(t[k])
    THEN [ok |-> TRUE, rest |-> SubSeq(s, Len(t) + 1, Len(s))]
    ELSE [ok |-> FALSE, rest |-> s]

\* alt of two parsers: the second is tried when the first backtracks
alt(r1, r2) == Only({IF a.ok \/ a.cut THEN a ELSE r2 : a \in {r1}})

\* A NaiveDate is the number of its day, day 0 being 1970-01-01 (a Thursday).
is_leap(y) == (y % 4 = 0 /\ y % 100 # 0) \/ y % 400 = 0

days_in_month(y, m) ==
    IF m = 2 THEN (IF is_leap(y) THEN 29 ELSE 28)
    ELSE IF m \in {4, 6, 9, 11} THEN 30 ELSE 31

\* the day number of the date y-m-d of the Gregorian calendar
days_from_civil(y, m, d) ==
    LET yy == IF m <= 2 THEN y - 1 ELSE y
        era == yy \div 400
        yoe == yy - era * 400
        mp == IF m > 2 THEN m - 3 ELSE m + 9
        doy == ((153 * mp + 2) \div 5) + d - 1
        doe == yoe * 365 + (yoe \div 4) - (yoe \div 100) + doy
    IN  era * 146097 + doe - 719468

\* NaiveDate::from_ymd_opt
from_ymd_opt(y, m, d) ==
    IF m >= 1 /\ m <= 12 /\ d >= 1 /\ d <= days_in_month(y, m)
    THEN [ok |-> TRUE, date |-> days_from_civil(y, m, d)]
    ELSE [ok |-> FALSE, date |-> 0]

\* Datelike::weekday().num_days_from_monday()
num_days_from_monday(date) == (date + 3) % 7

\* what a date parser returns
DateErr == [ok |-> FALSE, cut |-> FALSE, date |-> 0, rest |-> <<>>]
DateCut == [ok |-> FALSE, cut |-> TRUE, date |-> 0, rest |-> <<>>]
DateOk(d, rest) == [ok |-> TRUE, cut |-> FALSE, date |-> d, rest |-> rest]

\* tag_no_case(word).map(|_| d)
keyword(s, word, d) ==
    Only({IF t.ok THEN DateOk(d, t.rest) ELSE DateErr : t \in {tag_no_case(s, word)}})

\* the alt of weekday from the n-th name on: the long name, then the short
RECURSIVE weekday_name(_, _)
weekday_name(s, n) ==
    IF n > 7 THEN [ok |-> FALSE, w |-> 0, rest |-> s]
    ELSE Only({
        IF l.ok THEN [ok |-> TRUE, w |-> n - 1, rest |-> l.rest]
        ELSE Only({
            IF sh.ok THEN [ok |-> TRUE, w |-> n - 1, rest |-> sh.rest]
            ELSE weekday_name(s, n + 1)
            : sh \in {tag_no_case(s, DayNames[n].short)}})
        : l \in {tag_no_case(s, DayNames[n].long)}})

\* weekday that never resolves to today
weekday_after_today(s, today) ==
    Only({
        IF ~r.ok THEN DateErr
        ELSE DateOk(today + (((r.w + 6 - num_days_from_monday(today)) % 7) + 1), r.rest)
        : r \in {weekday_name(s, 1)}})

\* weekday
weekday(s, today) ==
    Only({
        IF ~r.ok THEN DateErr
        ELSE DateOk(today + ((r.w + 7 - num_days_from_monday(today)) % 7), r.rest)
        : r \in {weekday_name(s, 1)}})

\* str::parse::<i32>: an optional sign, then decimal digits
parse_i32(q) ==
    IF q # <<>> /\ Head(q) = "-"
    THEN Only({[ok |-> p.ok /\ Head(Tail(q)) # "+", v |-> 0 - p.v]
               : p \in {IF Tail(q) = <<>> THEN [ok |-> FALSE, v |-> 0]
                        ELSE parse_u32(Tail(q))}})
    ELSE parse_u32(q)

\* ddmmyyyy that reads the month before the day
ddmmyyyy_month_first(s) ==
    IF Len(s) < 10 \/ s[3] # "/" \/ s[6] # "/" THEN DateErr
    ELSE Only({
        IF ~year.ok \/ ~month.ok \/ ~day.ok THEN DateCut
        ELSE Only({IF r.ok THEN DateOk(r.date, SubSeq(s, 11, Len(s))) ELSE DateCut
                   : r \in {from_ymd_opt(year.v, month.v, day.v)}})
        : year \in {parse_i32(SubSeq(s, 7, 10))},
          month \in {parse_u32(SubSeq(s, 1, 2))},
          day \in {parse_u32(SubSeq(s, 4, 5))}})

\* ddmmyyyy: two chars, "/", two chars, "/", four chars, then the numbers
ddmmyyyy(s) ==
    IF Len(s) < 10 \/ s[3] # "/" \/ s[6] # "/" THEN DateErr
    ELSE Only({
        IF ~year.ok \/ ~month.ok \/ ~day.ok THEN DateCut
        ELSE Only({IF r.ok THEN DateOk(r.date, SubSeq(s, 11, Len(s))) ELSE DateCut
                   : r \in {from_ymd_opt(year.v, month.v, day.v)}})
        : year \in {parse_i32(SubSeq(s, 7, 10))},
          month \in {parse_u32(SubSeq(s, 4, 5))},
          day \in {parse_u32(SubSeq(s, 1, 2))}})

\* date; today is what Local::now().date_naive() returns
date(s, today) ==
    alt(keyword(s, Words.today, today),
    alt(keyword(s, Words.yesterday, today - 1),
    alt(alt(keyword(s, Words.tmrw, today + 1), keyword(s, Words.tomorrow, today + 1)),
    alt(weekday(s, today),
        ddmmyyyy(s)))))

\* time
time(s) == alt(proper_time(s), quick_time(s))

\* what datetime and time return to parse_session: a moment, with its date
\* when the parser read one
MomentErr(kind) ==
    [ok |-> FALSE, cut |-> kind, date |-> 0, hour |-> 0, minute |-> 0, rest |-> <<>>]

\* datetime
datetime(s, today) ==
    Only({
        IF ~d.ok THEN MomentErr(d.cut)
        ELSE Only({
            IF ~t.ok THEN MomentErr(t.cut)
            ELSE [ok |-> TRUE, cut |-> FALSE, date |-> d.date, hour |-> t.hour,
                  minute |-> t.minute, rest |-> t.rest]
            : t \in {time(skip_spaces(d.rest))}})
        : d \in {date(s, today)}})

\* the parser of one side of a session
moment(s, today, kind) ==
    IF kind = "datetime" THEN datetime(s, today)
    ELSE Only({IF ~t.ok THEN MomentErr(t.cut)
               ELSE [ok |-> TRUE, cut |-> FALSE, date |-> 0, hour |-> t.hour,
                     minute |-> t.minute, rest |-> t.rest]
               : t \in {time(s)}})

PairErr(kind) == [ok |-> FALSE, cut |-> kind, a |-> MomentErr(FALSE), b |-> MomentErr(FALSE)]

\* separated_pair(k1, tag(" to "), k2)
separated_pair(s, today, k1, k2) ==
    Only({
        IF ~a.ok THEN PairErr(a.cut)
        ELSE Only({
            IF ~sep.ok THEN PairErr(FALSE)
            ELSE Only({
                IF ~b.ok THEN PairErr(b.cut)
                ELSE [ok |-> TRUE, cut |-> FALSE, a |-> a, b |-> b]
                : b \in {moment(sep.rest, today, k2)}})
            : sep \in {tag(a.rest, Words.to)}})
        : a \in {moment(s, today, k1)}})

\* the four alternatives of parse_session, in their order
Alternatives ==
    <<<<"datetime", "datetime">>, <<"datetime", "time">>,
      <<"time", "datetime">>, <<"time", "time">>>>

At(d, m) == [date |-> d, hour |-> m.hour, minute |-> m.minute]

\* the maps of parse_session, with a start before a datetime put on its date
map_session_end_date(n, a, b, today) ==
    IF n = 1 THEN [start |-> At(a.date, a), end |-> At(b.date, b)]
    ELSE IF n = 2 THEN [start |-> At(a.date, a), end |-> At(a.date, b)]
    ELSE IF n = 3 THEN [start |-> At(b.date, a), end |-> At(b.date, b)]
    ELSE [start |-> At(today, a), end |-> At(today, b)]

\* the maps of the four alternatives of parse_session
map_session(n, a, b, today) ==
    IF n = 1 THEN [start |-> At(a.date, a), end |-> At(b.date, b)]
    ELSE IF n = 2 THEN [start |-> At(a.date, a), end |-> At(a.date, b)]
    ELSE IF n = 3 THEN [start |-> At(today, a), end |-> At(b.date, b)]
    ELSE [start |-> At(today, a), end |-> At(today, b)]

NoMoment == [date |-> 0, hour |-> 0, minute |-> 0]
SessionErr == [ok |-> FALSE, start |-> NoMoment, end |-> NoMoment]

\* the alt of parse_session from its n-th alternative on, then Parser::parse,
\* which refuses a rest
RECURSIVE alternatives(_, _, _)
alternatives(s, today, n) ==
    IF n > Len(Alternatives) THEN SessionErr
    ELSE Only({
        IF r.ok
        THEN IF r.b.rest # <<>> THEN SessionErr
             ELSE Only({[ok |-> TRUE, start |-> v.start, end |-> v.end]
                        : v \in {map_session(n, r.a, r.b, today)}})
        ELSE IF r.cut THEN SessionErr
        ELSE alternatives(s, today, n + 1)
        : r \in {separated_pair(s, today, Alternatives[n][1], Alternatives[n][2])}})

\* parse_session
parse_session(s, today) == alternatives(s, today, 1)

\* a number typed in at least n digits
RECURSIVE typed_padded(_, _)
typed_padded(v, n) ==
    IF Len(typed_number(v)) >= n THEN typed_number(v)
    ELSE Only({[k \in 1..(n - Len(t)) |-> "0"] \o t : t \in {typed_number(v)}})

\* A date as the user means it: no date, a keyword, a weekday (0 is Monday)
\* by its short name, its long name or its short name in capitals, or a day
\* of the calendar.
NoDate == [kind |-> "none", w |-> 0, style |-> "short", y |-> 0, m |-> 0, d |-> 0]

DateForms ==
    {[NoDate EXCEPT !.kind = k] : k \in {"none", "today", "yesterday", "tmrw", "tomorrow"}}
    \cup {[NoDate EXCEPT !.kind = "weekday", !.w = w, !.style = st]
          : w \in 0..6, st \in {"short", "long"}}
    \cup {[NoDate EXCEPT !.kind = "weekday", !.style = "upper"]}
    \cup {[NoDate EXCEPT !.kind = "ymd", !.y = c[1], !.m = c[2], !.d = c[3]]
          : c \in {<<2025, 4, 1>>, <<2024, 2, 29>>}}

\* the date as typed
typed_date(f) ==
    IF f.kind = "none" THEN <<>>
    ELSE IF f.kind = "weekday"
    THEN IF f.style = "long" THEN DayNames[f.w + 1].long
         ELSE IF f.style = "short" THEN DayNames[f.w + 1].short
         ELSE [k \in 1..3 |-> to_upper(DayNames[f.w + 1].short[k])]
    ELSE IF f.kind = "ymd"
    THEN typed_padded(f.d, 2) \o <<"/">> \o typed_padded(f.m, 2) \o <<"/">>
         \o typed_padded(f.y, 4)
    ELSE Words[f.kind]

\* A time as the user means it: the form of the grammar, the hour of the
\* 12-hour clock, the minute, the spaces before the meridiem, the meridiem.
TimeForm(form, h, m, sp, mer) == [form |-> form, h |-> h, m |-> m, sp |-> sp, mer |-> mer]

TimeForms ==
    {TimeForm("quick", 3, 0, 0, <<"p", "m">>),
     TimeForm("quick", 5, 0, 0, <<"p", "m">>),
     TimeForm("quick", 12, 0, 1, <<"A", "M">>),
     TimeForm("proper", 5, 30, 0, <<"p", "m">>)}

\* the times of scenario F, typed on the 24-hour clock without a meridiem,
\* and the same times typed on the 12-hour clock
BareTimes == {TimeForm("proper", 14, 0, 0, <<>>), TimeForm("proper", 15, 30, 0, <<>>)}
ClockTimes == {TimeForm("proper", 2, 0, 0, <<"p", "m">>), TimeForm("proper", 3, 30, 1, <<"P", "M">>)}
FirstOfApril == [NoDate EXCEPT !.kind = "ymd", !.y = 2025, !.m = 4, !.d = 1]

\* one side of a session as typed: the date, a space, the time
typed_moment(f) ==
    typed_date(f.date) \o (IF f.date.kind = "none" THEN <<>> ELSE <<" ">>)
    \o typed_time(f.time.form, f.time.h, f.time.m, FALSE, f.time.sp, f.time.mer)

\* the days parse_session is run on: the week of Wed 2024-05-15, the last
\* day of a February and the last day of a year
Todays ==
    {days_from_civil(2024, 5, d) : d \in 13..19}
    \cup {days_from_civil(2024, 2, 29), days_from_civil(2024, 12, 31)}

NoSession == [start |-> NoMoment, end |-> NoMoment]

\* a session text is about to be parsed: every pair of sides of the grammar,
\* and the text of scenario F
InitSession ==
    /\ store = create_base
    /\ last = NoOp
    /\ nops = 0
    /\ issued = {}
    /\ txn = NoHandle
    /\ snap = NoHandle
    /\ roots = Slots
    /\ mode = Idle.mode
    /\ status_view = Idle.status_view
    /\ wrapped = Idle.wrapped
    /\ builder = Idle.builder
    /\ tree_view = Idle.tree_view
    /\ session_view = Idle.session_view
    /\ \E today \in Todays :
       \E a, b \in [date : DateForms, time : TimeForms]
                   \cup [date : {FirstOfApril}, time : BareTimes \cup ClockTimes] :
          /\ (a.time \in BareTimes) = (b.time \in BareTimes)
          /\ (a.time \in ClockTimes) = (b.time \in ClockTimes)
          /\ parsed = [input |-> typed_moment(a) \o Words.to \o typed_moment(b),
                       today |-> today, a |-> a, b |-> b, by |-> "none",
                       ok |-> FALSE, start |-> NoMoment, end |-> NoMoment]

\* parse_session is run on the text
ParseSession ==
    /\ parsed.by = "none"
    /\ \E r \in {parse_session(parsed.input, parsed.today)} :
         parsed' = [parsed EXCEPT !.by = "parse_session", !.ok = r.ok,
                                  !.start = r.start, !.end = r.end]
    /\ UNCHANGED <<store, last, nops, issued, txn, snap, roots, mode, status_view,
                   wrapped, builder, tree_view, session_view>>

SpecSession == InitSession /\ [][ParseSession]_vars

\* the typed text is of the grammar: both times carry a meridiem
InGrammar == parsed.a.time \notin BareTimes /\ parsed.b.time \notin BareTimes

\* the date a typed date means on the day today, by the semantics of the
\* grammar; for no date, the date other
MeantDate(f, today, other) ==
    IF f.kind = "none" THEN other
    ELSE IF f.kind = "today" THEN today
    ELSE IF f.kind = "yesterday" THEN today - 1
    ELSE IF f.kind \in {"tmrw", "tomorrow"} THEN today + 1
    ELSE IF f.kind = "weekday"
    THEN CHOOSE d \in today..(today + 6) : num_days_from_monday(d) = f.w
    ELSE days_from_civil(f.y, f.m, f.d)

\* the hour of the day a typed time means
MeantHour(t) == (t.h % 12) + (IF t.mer \in {<<"p", "m">>, <<"P", "M">>} THEN 12 ELSE 0)

Moment(y, m, d, hour, minute) ==
    [date |-> days_from_civil(y, m, d), hour |-> hour, minute |-> minute]

\* a quick time, a proper time, with no date
Typed3pm == [date |-> NoDate, time |-> TimeForm("quick", 3, 0, 0, <<"p", "m">>)]
Typed5pm == [date |-> NoDate, time |-> TimeForm("quick", 5, 0, 0, <<"p", "m">>)]
Typed530pm == [date |-> NoDate, time |-> TimeForm("proper", 5, 30, 0, <<"p", "m">>)]

\* C31: a weekday name resolves to today + ((weekday - today's weekday + 7)
\* mod 7), a date of that weekday in [today, today + 6], today itself when
\* the weekdays match; in 'weekday time to time' the end takes the date of
\* the start; "mon 3pm to 5pm" on Wed 2024-05-15 is 2024-05-20 15:00 to
\* 2024-05-20 17:00.
C31_WeekdayResolves ==
    (parsed.by = "parse_session") =>
        LET today == parsed.today
            wd == num_days_from_monday(today)
            Resolved(f, got) ==
                (f.kind = "weekday") =>
                    /\ got = today + ((f.w - wd + 7) % 7)
                    /\ num_days_from_monday(got) = f.w
                    /\ today <= got /\ got <= today + 6
                    /\ (f.w = wd) => got = today
        IN  /\ parsed.ok =>
                /\ Resolved(parsed.a.date, parsed.start.date)
                /\ Resolved(parsed.b.date, parsed.end.date)
                /\ (parsed.a.date.kind = "weekday" /\ parsed.b.date.kind = "none")
                      => parsed.end.date = parsed.start.date
            /\ (/\ today = days_from_civil(2024, 5, 15)
                /\ parsed.a = [Typed3pm EXCEPT !.date = [NoDate EXCEPT !.kind = "weekday"]]
                /\ parsed.b = Typed5pm) =>
                    /\ wd = 2
                    /\ parsed.input = <<"m", "o", "n", " ", "3", "p", "m", " ", "t", "o",
                                        " ", "5", "p", "m">>
                    /\ parsed.ok
                    /\ parsed.start = Moment(2024, 5, 20, 15, 0)
                    /\ parsed.end = Moment(2024, 5, 20, 17, 0)

\* "mon 3pm to 5pm" was parsed on Wed 2024-05-15
W31_MondayFromWednesday ==
    /\ parsed.by = "parse_session"
    /\ parsed.ok
    /\ parsed.today = days_from_civil(2024, 5, 15)
    /\ parsed.a = [Typed3pm EXCEPT !.date = [NoDate EXCEPT !.kind = "weekday"]]
    /\ parsed.b = Typed5pm
    /\ parsed.start.date = parsed.today + 5

\* C32 as stated: a bare time paired with a datetime is placed on the date
\* of the other side, on both sides: 'datetime to time' ends on the date of
\* the start, 'time to datetime' starts on the date of the end; only 'time
\* to time' puts both on today.
C32_BareTimeTakesOtherDate_AsStated ==
    (parsed.by = "parse_session" /\ parsed.ok /\ InGrammar) =>
        LET dated_a == parsed.a.date.kind # "none"
            dated_b == parsed.b.date.kind # "none"
        IN  /\ (dated_a /\ ~dated_b) => parsed.end.date = parsed.start.date
            /\ (~dated_a /\ dated_b) => parsed.start.date = parsed.end.date
            /\ (~dated_a /\ ~dated_b) =>
                  parsed.start.date = parsed.today /\ parsed.end.date = parsed.today

\* C32 amended: 'datetime to time' ends on the date of the start; 'time to
\* datetime' starts on today, whatever the date of the end; 'time to time'
\* puts both on today.  Each side keeps the time typed for it.
C32_BareTimeTakesOtherDate ==
    (parsed.by = "parse_session" /\ parsed.ok /\ InGrammar) =>
        LET dated_a == parsed.a.date.kind # "none"
            dated_b == parsed.b.date.kind # "none"
        IN  /\ (dated_a /\ ~dated_b) =>
                  /\ parsed.start.date = MeantDate(parsed.a.date, parsed.today, 0)
                  /\ parsed.end.date = parsed.start.date
            /\ (~dated_a /\ dated_b) =>
                  /\ parsed.start.date = parsed.today
                  /\ parsed.end.date = MeantDate(parsed.b.date, parsed.today, 0)
            /\ (~dated_a /\ ~dated_b) =>
                  parsed.start.date = parsed.today /\ parsed.end.date = parsed.today
            /\ parsed.start.hour = MeantHour(parsed.a.time)
            /\ parsed.start.minute = parsed.a.time.m
            /\ parsed.end.hour = MeantHour(parsed.b.time)
            /\ parsed.end.minute = parsed.b.time.m

\* "3pm to tomorrow 5pm" was parsed: it starts today and ends tomorrow
W32_StartsTodayEndsTomorrow ==
    /\ parsed.by = "parse_session"
    /\ parsed.ok
    /\ parsed.a = Typed3pm
    /\ parsed.b = [Typed5pm EXCEPT !.date = [NoDate EXCEPT !.kind = "tomorrow"]]
    /\ parsed.start.date = parsed.today
    /\ parsed.end.date = parsed.today + 1

\* the text of scenario F, "01/04/2025 14:00 to 01/04/2025 15:30"
ScenarioF ==
    <<"0", "1", "/", "0", "4", "/", "2", "0", "2", "5", " ", "1", "4", ":", "0", "0",
      " ", "t", "o", " ",
      "0", "1", "/", "0", "4", "/", "2", "0", "2", "5", " ", "1", "5", ":", "3", "0">>

\* the same interval typed on the 12-hour clock,
\* "01/04/2025 2:00pm to 01/04/2025 3:30 PM"
ScenarioF12 ==
    <<"0", "1", "/", "0", "4", "/", "2", "0", "2", "5", " ", "2", ":", "0", "0", "p", "m",
      " ", "t", "o", " ",
      "0", "1", "/", "0", "4", "/", "2", "0", "2", "5", " ", "3", ":", "3", "0", " ", "P", "M">>

W33_TwelveHourAccepted ==
    /\ parsed.by = "parse_session"
    /\ parsed.input = ScenarioF12
    /\ parsed.ok

\* C38: every text of the session grammar parses, to the moments it means;
\* "3pm to 5:30pm", a quick_time then a proper_time, parses to today 15:00
\* to today 17:30: proper_time failing on the start never keeps quick_time
\* from being tried.
C38_GrammarParses ==
    (parsed.by = "parse_session" /\ InGrammar) =>
        /\ parsed.ok
        /\ (parsed.a = Typed3pm /\ parsed.b = Typed530pm) =>
              /\ parsed.input = <<"3", "p", "m", " ", "t", "o", " ", "5", ":", "3", "0",
                                  "p", "m">>
              /\ parsed.start = [date |-> parsed.today, hour |-> 15, minute |-> 0]
              /\ parsed.end = [date |-> parsed.today, hour |-> 17, minute |-> 30]

\* ------------------------------------------------ sessions of one id
\* Session { start, end }, compared field by field in that order
\* (Storable::compare is self.cmp): the session values 1, 2, 3, ... stand
\* for the (start, end) pairs (0, 0), (0, 1), (1, 0), (1, 1), ... in that
\* order
session_of(v) == [start |-> (v - 1) \div 2, end |-> (v - 1) % 2]

SessionLess(a, b) ==
    a.start < b.start \/ (a.start = b.start /\ a.end < b.end)

\* the sessions the iterator of sessions(id) yields
Yielded(s, id) == {sessions(s, id)[k][2] : k \in 1..Len(sessions(s, id))}

\* C22: after every transaction, for every id, sessions(id) yields entries
\* of id only, in strictly ascending (start, end) order; they are the ones
\* it yielded before plus, after add_session(id, session), that session;
\* read_session(id) returns the first of them, and none when id has no
\* session, whatever sessions larger ids have.
C22_SessionsOfIdInOrder ==
    [][\A id \in 0..MaxId :
          LET q == sessions(store', id)
          IN  /\ \A k \in 1..Len(q) : q[k][1] = id
              /\ \A k \in 1..(Len(q) - 1) :
                    SessionLess(session_of(q[k][2]), session_of(q[k + 1][2]))
              /\ Yielded(store', id) =
                    Yielded(store, id) \cup
                    (IF Ran("add_session") /\ last'.a = id THEN {last'.b} ELSE {})
              /\ read_session(store', id) = (IF q = <<>> THEN NoneId ELSE q[1][2])
      ]_vars

\* node 1 has no session while node 2 has one, and node 0 has two
W22_GapBelowSessions ==
    /\ {1, 2} \subseteq NodeIds(store)
    /\ sessions(store, 1) = <<>>
    /\ Len(sessions(store, 2)) >= 1
    /\ Len(sessions(store, 0)) = 2
    /\ read_session(store, 1) = NoneId
    /\ last.op = "add_session"
\* --------------------------------------------- command mode (tvc.rs)
\* chars of one status input
MaxInput == 6
\* commands entered in one run
MaxCommands == 2

\* the names of the payloads: "aa a" and "a"
Names == <<<<"a", "a", " ", "a">>, <<"a">>>>

\* bincode::deserialize of a payload into a NodeData: the name, and the due
\* date (NoneId for None).  Payloads 1 and 2 carry no due date.
deserialize(data) ==
    [name |-> Names[((data - 1) % Len(Names)) + 1],
     due_date |-> ((data - 1) \div Len(Names)) - 1]

\* bincode::serialize of a NodeData { due_date: Some(due_date), ..original }, original
\* being the NodeData of payload `named`
serialize(named, due_date) ==
    1 + ((named - 1) % Len(Names)) + Len(Names) * (due_date + 1)

\* the keys typed into the status input
Keys == {"1", " ", "t", "o"}

\* interim::parse_date_string, a dependency: of the typed texts, the ones
\* of one decimal digit are dates, with the digit as their value
parse_date_string(text) ==
    IF Len(text) = 1 /\ is_dec_digit(text[1])
    THEN [ok |-> TRUE, v |-> digits_value(text, 0)]
    ELSE [ok |-> FALSE, v |-> 0]

\* Session::from_str: split_once(" to "), both sides parsed as dates; the
\* session value of (start, end) is the one session_of numbers
Session_from_str(text) ==
    Only({
        IF at = {} THEN [ok |-> FALSE, v |-> 0]
        ELSE Only({
            Only({
                IF st.ok /\ en.ok THEN [ok |-> TRUE, v |-> 1 + 2 * st.v + en.v]
                ELSE [ok |-> FALSE, v |-> 0]
                : st \in {parse_date_string(SubSeq(text, 1, k - 1))},
                  en \in {parse_date_string(SubSeq(text, k + 4, Len(text)))}})
            : k \in {CHOOSE k \in at : \A l \in at : k <= l}})
        : at \in {{k \in 1..(Len(text) - 3) : SubSeq(text, k, k + 3) = <<" ", "t", "o", " ">>}}})

\* TreeViewController::enter_command_mode for the two commands that parse
\* their text; the cursor is on the root
EnterCommandMode ==
    /\ mode = "Normal"
    /\ \E cmd \in {"SetDueDate", "AddSession"} : mode' = cmd
    /\ UNCHANGED <<store, last, nops, issued, txn, snap, roots, status_view,
                   wrapped, parsed, builder, tree_view, session_view>>

\* KeyCode::Char(c) in command mode: StatusView::insert
Insert ==
    /\ mode # "Normal"
    /\ Len(status_view) < MaxInput
    /\ \E c \in Keys : status_view' = Append(status_view, c)
    /\ UNCHANGED <<store, last, nops, issued, txn, snap, roots, mode,
                   wrapped, parsed, builder, tree_view, session_view>>

\* KeyCode::Esc in command mode: TreeViewController::cancel
Cancel ==
    /\ mode # "Normal"
    /\ status_view' = <<>>
    /\ mode' = "Normal"
    /\ UNCHANGED <<store, last, nops, issued, txn, snap, roots, wrapped, parsed, builder, tree_view, session_view>>

\* KeyCode::Enter with CommandType::SetDueDate: TreeViewController::
\* set_due_date with the cursor on the root and nothing selected
SetDueDate ==
    /\ mode = "SetDueDate"
    /\ nops < MaxCommands
    /\ nops' = nops + 1
    /\ \E due_date \in {parse_date_string(status_view)} :
         /\ last' = [op |-> "set_due_date", a |-> 0, b |-> due_date.v, c |-> 0,
                     sel |-> <<>>, ret |-> 0, res |-> due_date.ok, err |-> FALSE]
         /\ IF ~due_date.ok
            THEN UNCHANGED <<store, mode, status_view, tree_view, session_view>>
            ELSE /\ \E r \in {modify(writer(store).s, 0, serialize(read(writer(store).s, 0), due_date.v))} :
                       store' = commit(store, r.s)
                 /\ status_view' = <<>>
                 /\ mode' = "Normal"
    /\ UNCHANGED <<issued, txn, snap, roots, wrapped, parsed, builder, tree_view, session_view>>

\* KeyCode::Enter with CommandType::AddSession: TreeViewController::
\* add_session with the cursor on the root
AddSessionCommand ==
    /\ mode = "AddSession"
    /\ nops < MaxCommands
    /\ nops' = nops + 1
    /\ \E session \in {Session_from_str(status_view)} :
         /\ last' = [op |-> "add_session", a |-> 0, b |-> session.v, c |-> 0,
                     sel |-> <<>>, ret |-> 0, res |-> session.ok, err |-> FALSE]
         /\ IF ~session.ok
            THEN UNCHANGED <<store, mode, status_view, tree_view, session_view>>
            ELSE /\ \E r \in {add_session(writer(store).s, 0, session.v)} :
                       store' = commit(store, r.s)
                 /\ status_view' = <<>>
                 /\ mode' = "Normal"
    /\ UNCHANGED <<issued, txn, snap, roots, wrapped, parsed, builder, tree_view, session_view>>

NextCommand ==
    \/ EnterCommandMode
    \/ Insert
    \/ Cancel
    \/ SetDueDate
    \/ AddSessionCommand

SpecCommand == Init /\ [][NextCommand]_vars

\* C21: when Enter is pressed on a SetDueDate or AddSession command whose
\* text does not parse, the intent returns Ok, the store is as it was, the
\* status input is empty and the mode is Normal.
C21_ParseFailureClearsCommand ==
    [][(nops' = nops + 1 /\
         \/ mode = "SetDueDate" /\ ~parse_date_string(status_view).ok
         \/ mode = "AddSession" /\ ~Session_from_str(status_view).ok)
       => /\ ~last'.err
          /\ store' = store
          /\ status_view' = <<>>
          /\ mode' = "Normal"]_vars

\* ------------------------------------------- flat tree (flattree.rs, tvc.rs)
\* write transactions before one build_flattree call
MaxTreeOps == 4
\* rows of the terminal above the two that are not the tree's: 0..MaxRows
MaxRows == 5

\* the columns of the terminals a build runs on
TermWidths == {3, 9, 25}

\* Displayable<NaiveDateTime>: the date d is today at d o'clock in the
\* morning, which takes the last format, "%-I:%M %p"
Displayable_date(d) ==
    IF d = NoneId THEN <<>>
    ELSE typed_number(IF d % 12 = 0 THEN 12 ELSE d % 12) \o <<":", "0", "0", " ", "A", "M">>

\* Displayable<Session>: "{start} to {end}"
Displayable_session(v) ==
    IF v = NoneId THEN <<>>
    ELSE Displayable_date(session_of(v).start) \o <<" ", "t", "o", " ">>
         \o Displayable_date(session_of(v).end)

\* TreeViewConstraints::update on a terminal of w columns and h rows,
\* h >= 2, read back by tree_width, session_width, due_date_width and
\* tree_height
TreeViewConstraints_update(w, h) ==
    [tasks_width |-> (w - 1) \div 2,
     session_width |-> (w - 1) \div 3,
     due_date_width |-> IF w > 4 + ((w - 1) \div 2) + ((w - 1) \div 3)
                        THEN w - (4 + ((w - 1) \div 2) + ((w - 1) \div 3)) ELSE 0,
     height |-> h - 2]

\* TreeViewReader::get_node
get_node(s, c, pid, id, depth) ==
    Only({[id |-> id, pid |-> pid, depth |-> depth,
           priority |-> [det |-> 0, total |-> 1],
           name_splits |-> wrap_text(data.name, c.tasks_width - 2 * depth - 1),
           session_splits |-> wrap_text(Displayable_session(read_session(s, id)), c.session_width),
           due_date_splits |-> wrap_text(Displayable_date(data.due_date), c.due_date_width)]
          : data \in {deserialize(read(s, id))}})

\* Node::height
Node_height(node) ==
    Only({IF n >= m THEN n ELSE m
          : n \in {Len(node.name_splits) - 1},
            m \in {IF Len(node.session_splits) >= Len(node.due_date_splits)
                   THEN Len(node.session_splits) - 1
                   ELSE Len(node.due_date_splits) - 1}})

\* the first loop of get_children: the nodes of the child ids, none when
\* the indent of the depth leaves no column
RECURSIVE get_children_nodes(_, _, _, _, _)
get_children_nodes(s, c, pid, ids, depth) ==
    IF ids = <<>> THEN <<>>
    ELSE IF 2 * depth + 1 >= c.tasks_width THEN <<>>
    ELSE <<get_node(s, c, pid, Head(ids), depth)>>
         \o get_children_nodes(s, c, pid, Tail(ids), depth)

\* TreeViewReader::get_children: the nodes, then their priorities by
\* position
get_children(s, c, pid, depth) ==
    Only({[i \in 1..Len(nodes) |->
             [nodes[i] EXCEPT !.priority = [det |-> i - 1, total |-> Len(nodes)]]]
          : nodes \in {Only({get_children_nodes(s, c, pid, ids, depth + 1)
                              : ids \in {child_ids(s, pid).ids}})}})

\* Vec<usize>::cmp: lexicographic, a proper prefix first
RECURSIVE path_less(_, _)
path_less(p, q) ==
    IF q = <<>> THEN FALSE
    ELSE IF p = <<>> THEN TRUE
    ELSE Head(p) < Head(q) \/ (Head(p) = Head(q) /\ path_less(Tail(p), Tail(q)))

\* slice::sort_by, a stable sort, as the order of the indices of the keys:
\* index x goes after every index whose key is not greater
RECURSIVE sort_insert(_, _, _)
sort_insert(o, x, key) ==
    IF o = <<>> THEN <<x>>
    ELSE IF path_less(key[x], key[o[Len(o)]])
    THEN Append(sort_insert(SubSeq(o, 1, Len(o) - 1), x, key), o[Len(o)])
    ELSE Append(o, x)

RECURSIVE sort_order(_, _)
sort_order(n, key) ==
    IF n = 0 THEN <<>> ELSE sort_insert(sort_order(n - 1, key), n, key)

sort_by(q, key) ==
    Only({[k \in 1..Len(q) |-> q[o[k]]] : o \in {sort_order(Len(q), key)}})

\* the locals of build_flattree before the root is read: the fields of the
\* TreeViewReader (c), the root id, no FlatTreeBuilder yet, the empty
\* HashSet ids.  fetched lists the ids get_children was called for and
\* overflow tells that step returned Done for a child that did not fit;
\* out is the Vec build_flattree returns.
build_locals(c, root) ==
    [state |-> "Finished", c |-> c, root |-> root, fnodes |-> <<>>, queue |-> <<>>,
     start |-> 0, filled |-> 0, ids |-> {}, fetched |-> <<>>, overflow |-> FALSE,
     out |-> <<>>]

\* FlatTreeBuilder::new; state is the FlatTreeState of the last step, Build
\* before the first
FlatTreeBuilder_new(b, root, height) ==
    [b EXCEPT !.state = "Build",
              !.fnodes = <<[node |-> root, path |-> <<0>>]>>,
              !.filled = Len(root.name_splits) - 1]

\* build_flattree that builds whatever the height is
build_start_any_height(s, c, id) ==
    IF c.tasks_width <= 1 THEN build_locals(c, id)
    ELSE Only({FlatTreeBuilder_new(build_locals(c, id), root, c.height)
               : root \in {get_node(s, c, id, id, 0)}})

\* build_flattree up to its loop
build_start(s, c, id) ==
    IF c.tasks_width <= 1 THEN build_locals(c, id)
    ELSE Only({IF Len(root.name_splits) - 1 > c.height THEN build_locals(c, id)
               ELSE FlatTreeBuilder_new(build_locals(c, id), root, c.height)
               : root \in {get_node(s, c, id, id, 0)}})

\* FlatTreeBuilder::step for a popped iterator that yields a child
step_child(b, it, child, extra) ==
    IF b.filled + extra > b.c.height
    THEN [b EXCEPT !.queue = Tail(@), !.state = "Done", !.overflow = TRUE]
    ELSE [b EXCEPT !.filled = @ + extra,
                   !.queue = Append(Tail(@), [iter |-> Tail(it.iter), last |-> it.last]),
                   !.fnodes = Append(@, [node |-> child,
                                         path |-> Append(b.fnodes[it.last + 1].path, Len(b.fnodes))]),
                   !.state = "Build"]

\* step that takes an empty queue as the end of the build
step_done_on_empty(b) ==
    IF b.queue = <<>> THEN [b EXCEPT !.state = "Done"]
    ELSE IF Head(b.queue).iter = <<>>
    THEN [b EXCEPT !.queue = Tail(@), !.state = "Build"]
    ELSE step_child(b, Head(b.queue), Head(Head(b.queue).iter),
                    Len(Head(Head(b.queue).iter).name_splits) - 1)

\* FlatTreeBuilder::step
step(b) ==
    IF b.queue = <<>>
    THEN [b EXCEPT !.state = IF b.start = Len(b.fnodes) THEN "Done" ELSE "Refill"]
    ELSE IF Head(b.queue).iter = <<>>
    THEN [b EXCEPT !.queue = Tail(@), !.state = "Build"]
    ELSE step_child(b, Head(b.queue), Head(Head(b.queue).iter),
                    Len(Head(Head(b.queue).iter).name_splits) - 1)

\* fill that puts the iterator at the front of the queue
fill_at_front(b, nodes, at) ==
    [b EXCEPT !.queue = <<[iter |-> sort_by(nodes, [k \in 1..Len(nodes) |-> <<nodes[k].priority.det>>]),
                           last |-> at]>> \o @]

\* FlatTreeBuilder::fill: sort by priority, push the iterator
fill(b, nodes, at) ==
    [b EXCEPT !.queue = Append(@, [iter |-> sort_by(nodes, [k \in 1..Len(nodes) |-> <<nodes[k].priority.det>>]),
                                   last |-> at])]

\* the body of the Refill loop without the HashSet
refill_every_index(s, b, i) ==
    Only({Only({fill([b EXCEPT !.ids = @ \cup {id}, !.fetched = Append(@, id)], nodes, i)
                : nodes \in {get_children(s, b.c, id, b.fnodes[i + 1].node.depth)}})
          : id \in {b.fnodes[i + 1].node.id}})

\* the body of the Refill loop of build_flattree for index i
refill_index(s, b, i) ==
    Only({IF id \in b.ids THEN b
          ELSE Only({fill([b EXCEPT !.ids = @ \cup {id}, !.fetched = Append(@, id)], nodes, i)
                     : nodes \in {get_children(s, b.c, id, b.fnodes[i + 1].node.depth)}})
          : id \in {b.fnodes[i + 1].node.id}})

\* the Refill loop without finish_fill
RECURSIVE refill_keeps_start(_, _, _)
refill_keeps_start(s, b, i) ==
    IF i >= Len(b.fnodes) THEN [b EXCEPT !.state = "Build"]
    ELSE Only({refill_keeps_start(s, n, i + 1) : n \in {refill_index(s, b, i)}})

\* the Refill loop over fill_range from i on, then finish_fill
RECURSIVE refill(_, _, _)
refill(s, b, i) ==
    IF i >= Len(b.fnodes) THEN [b EXCEPT !.start = Len(b.fnodes), !.state = "Build"]
    ELSE Only({refill(s, n, i + 1) : n \in {refill_index(s, b, i)}})

\* finish that keeps the order of acceptance
finish_unsorted(b) ==
    [b EXCEPT !.state = "Finished",
              !.out = [k \in 1..Len(b.fnodes) |-> b.fnodes[k].node]]

\* FlatTreeBuilder::finish: sort by path, keep the nodes
finish(b) ==
    [b EXCEPT !.state = "Finished",
              !.out = Only({[k \in 1..Len(q) |-> q[k].node]
                            : q \in {sort_by(b.fnodes, [k \in 1..Len(b.fnodes) |-> b.fnodes[k].path])}})]

\* the transactions that shape the store before a build
TreeEdit ==
    /\ builder.state = "Idle"
    /\ nops < MaxTreeOps
    /\ \/ AddChild
       \/ Share
       \/ AddSession

\* TreeViewController::update_tree_view: a reader on the store, the sizes of
\* the terminal, build_flattree up to its loop.  The reader lives until the
\* build returns, so no transaction commits in between.
BuildFlattree ==
    /\ builder.state = "Idle"
    /\ \E w \in TermWidths, h \in 2..(MaxRows + 2), id \in Shown(store) :
         \E b \in {build_start(reader(store).s, TreeViewConstraints_update(w, h), id)} :
            builder' = b
    /\ UNCHANGED <<store, last, nops, issued, txn, snap, roots, mode, status_view, wrapped, parsed, tree_view, session_view>>

\* one turn of the loop of build_flattree after step returned Build
BuilderStep ==
    /\ builder.state = "Build"
    /\ \E b \in {step(builder)} : builder' = b
    /\ UNCHANGED <<store, last, nops, issued, txn, snap, roots, mode, status_view, wrapped, parsed, tree_view, session_view>>

\* one turn of the loop after step returned Refill
BuilderRefill ==
    /\ builder.state = "Refill"
    /\ \E b \in {refill(reader(store).s, builder, builder.start)} : builder' = b
    /\ UNCHANGED <<store, last, nops, issued, txn, snap, roots, mode, status_view, wrapped, parsed, tree_view, session_view>>

\* the last turn of the loop, after step returned Done
BuilderFinish ==
    /\ builder.state = "Done"
    /\ \E b \in {finish(builder)} : builder' = b
    /\ UNCHANGED <<store, last, nops, issued, txn, snap, roots, mode, status_view, wrapped, parsed, tree_view, session_view>>

NextTree ==
    \/ TreeEdit
    \/ BuildFlattree
    \/ BuilderStep
    \/ BuilderRefill
    \/ BuilderFinish

SpecTree == Init /\ [][NextTree]_vars

\* the nodes the builder has accepted, in the order of acceptance
Accepted == [k \in 1..Len(builder.fnodes) |-> builder.fnodes[k].node]

\* the rows a list of nodes takes on the screen
RECURSIVE RowHeights(_)
RowHeights(nodes) ==
    IF nodes = <<>> THEN 0 ELSE Node_height(Head(nodes)) + RowHeights(Tail(nodes))

\* C23: during and after a build, filled is the sum of the row heights
\* (the maximum of the name, session and due-date line counts) of the
\* accepted nodes, and the returned list takes at most H rows.
C23_FilledIsRowHeight ==
    builder.state # "Idle" =>
        /\ builder.filled = RowHeights(Accepted)
        /\ RowHeights(builder.out) <= builder.c.height

\* the index of the accepted node under which the k-th was accepted, k > 1
ParentAt(k) == builder.fnodes[k].path[Len(builder.fnodes[k].path) - 1] + 1

\* the index of the occurrence of id that was accepted first
FirstAt(id) ==
    CHOOSE i \in 1..Len(builder.fnodes) :
        /\ builder.fnodes[i].node.id = id
        /\ \A j \in 1..(i - 1) : builder.fnodes[j].node.id # id

\* the child ids of a node that has a column left for them at its depth
Permitted(node) ==
    IF 2 * (node.depth + 1) + 1 >= builder.c.tasks_width THEN <<>>
    ELSE child_ids(store, node.id).ids

\* the ids of the accepted nodes that were accepted under the i-th, in the
\* order of acceptance
RECURSIVE ShownUnder(_, _)
ShownUnder(i, k) ==
    IF k > Len(builder.fnodes) THEN <<>>
    ELSE (IF k > 1 /\ ParentAt(k) = i THEN <<builder.fnodes[k].node.id>> ELSE <<>>)
         \o ShownUnder(i, k + 1)

\* C24: no id has its children fetched twice in a build; every node with a
\* parent was accepted under the occurrence of the parent's id that was
\* accepted first; a build that ended without a child failing to fit
\* lists, under that first occurrence of every accepted id, every child the
\* width permits, so a shared id is listed once per expanded parent; and
\* the returned list has the accepted nodes, each once.
C24_SharedExpandedOnce ==
    builder.state # "Idle" =>
        /\ NoDuplicates(builder.fetched)
        /\ \A k \in 2..Len(builder.fnodes) :
               ParentAt(k) = FirstAt(builder.fnodes[ParentAt(k)].node.id)
        /\ (builder.state = "Finished" /\ ~builder.overflow) =>
               \A i \in 1..Len(builder.fnodes) :
                   i = FirstAt(builder.fnodes[i].node.id) =>
                       ShownUnder(i, 1) = Permitted(builder.fnodes[i].node)
        /\ builder.state = "Finished" =>
               /\ Len(builder.out) = Len(builder.fnodes)
               /\ \A k \in 1..Len(builder.fnodes) :
                      \E j \in 1..Len(builder.out) : builder.out[j] = builder.fnodes[k].node

\* a finished build lists a shared id twice and lists a child under the
\* occurrence accepted first
W24_SharedListedTwice ==
    /\ builder.state = "Finished"
    /\ \E i, j, k \in 1..Len(builder.fnodes) :
          /\ i < j
          /\ builder.fnodes[i].node.id = builder.fnodes[j].node.id
          /\ k > 1
          /\ ParentAt(k) = i

\* the place in the returned list of the row the k-th row hangs under: the
\* nearest row before it that is one level up (0 when there is none)
RowAbove(k) ==
    IF \E j \in 1..(k - 1) : builder.out[j].depth + 1 = builder.out[k].depth
    THEN CHOOSE j \in 1..(k - 1) :
            /\ builder.out[j].depth + 1 = builder.out[k].depth
            /\ \A l \in (j + 1)..(k - 1) : builder.out[l].depth + 1 # builder.out[k].depth
    ELSE 0

\* the ids of the rows that hang under the j-th row, in the order of the list
RECURSIVE RowsUnder(_, _)
RowsUnder(j, k) ==
    IF k > Len(builder.out) THEN <<>>
    ELSE (IF k > j /\ RowAbove(k) = j THEN <<builder.out[k].id>> ELSE <<>>)
         \o RowsUnder(j, k + 1)

IsPrefix(p, q) == Len(p) <= Len(q) /\ SubSeq(q, 1, Len(p)) = p

C26_EmptyOrRootFirst ==
    builder.state = "Finished" =>
        /\ builder.out = <<>> <=>
              \/ builder.c.tasks_width <= 1
              \/ Len(wrap_text(deserialize(read(store, builder.root)).name,
                               builder.c.tasks_width - 1)) - 1 > builder.c.height
        /\ builder.out # <<>> => builder.out[1].id = builder.root

\* a build on a name column wider than 1 returned the empty list
W26_RootTooTall ==
    /\ builder.state = "Finished"
    /\ builder.c.tasks_width > 1
    /\ builder.out = <<>>

\* ------------------------------------------------ the protocol of the builder
\* the lines step counts for the child the front iterator yields next
NextExtra == Len(Head(Head(builder.queue).iter).name_splits) - 1

\* the front iterator yields a child that does not fit by step's count
ChildOverflows ==
    /\ builder.queue # <<>>
    /\ Head(builder.queue).iter # <<>>
    /\ builder.filled + NextExtra > builder.c.height

\* what a turn of the loop that calls step has done
StepTurn ==
    builder.state = "Build" =>
        /\ builder'.state = "Refill" <=>
              (builder.queue = <<>> /\ builder.start < Len(builder.fnodes))
        /\ builder'.state = "Done" <=>
              \/ builder.queue = <<>> /\ builder.start = Len(builder.fnodes)
              \/ ChildOverflows
        /\ builder'.state \in {"Refill", "Done", "Build"}
        /\ builder'.state = "Build" =>
              \/ /\ Len(builder'.fnodes) = Len(builder.fnodes) + 1
                 /\ Len(builder'.queue) = Len(builder.queue)
                 /\ builder'.fnodes[Len(builder'.fnodes)].node = Head(Head(builder.queue).iter)
              \/ /\ builder'.fnodes = builder.fnodes
                 /\ Head(builder.queue).iter = <<>>
                 /\ builder'.queue = Tail(builder.queue)
        /\ builder'.state # "Build" => builder'.fnodes = builder.fnodes
        /\ builder'.start = builder.start

\* what a turn of the loop that refills has done
RefillTurn ==
    builder.state = "Refill" =>
        /\ builder'.state = "Build"
        /\ builder'.start = Len(builder.fnodes)
        /\ builder'.fnodes = builder.fnodes
        /\ Len(builder'.queue) = Len(builder'.fetched) - Len(builder.fetched)
        /\ \A k \in 1..Len(builder'.queue) :
              /\ builder'.queue[k].last >= builder.start
              /\ builder'.queue[k].last < Len(builder.fnodes)
              /\ builder.fnodes[builder'.queue[k].last + 1].node.id \notin builder.ids

\* C34: step returns Refill exactly when the queue is empty and start is
\* below the number of accepted nodes; Done exactly when the queue is empty
\* and start equals that number, or the next child does not fit in H by
\* the builder's count; Build otherwise, and then it has either accepted
\* one child or dropped one exhausted iterator.  The Refill turn fills for
\* indices of [start, accepted.len()) only and finish_fill sets start to
\* accepted.len().
C34_StepProtocol == [][StepTurn /\ RefillTurn]_vars

\* step has returned Refill a second time: accepted nodes lie past start
W34_SecondRefill ==
    /\ builder.state = "Refill"
    /\ builder.start > 0
    /\ builder.start < Len(builder.fnodes)

\* the place of the k-th accepted node among the nodes accepted under its
\* parent occurrence, counted from 1
RankUnder(k) ==
    Cardinality({j \in 2..k : ParentAt(j) = ParentAt(k)})

MaxLiveOps == 3

\* the transactions that shape the tree before such a build
TreeEditLive ==
    /\ builder.state = "Idle"
    /\ nops < MaxLiveOps
    /\ \/ AddChild
       \/ Share

NextTreeLive ==
    \/ TreeEditLive
    \/ BuildFlattree
    \/ BuilderStep
    \/ BuilderRefill
    \/ BuilderFinish

\* the loop of build_flattree runs on: each turn that can be taken is taken
SpecTreeLive ==
    /\ Init
    /\ [][NextTreeLive]_vars
    /\ WF_vars(BuilderStep)
    /\ WF_vars(BuilderRefill)
    /\ WF_vars(BuilderFinish)

\* C36: every build that starts returns, and it never has more accepted
\* nodes than 1 plus the parent-to-child links of the store.
C36_BuildTerminates ==
    /\ [](builder.state # "Idle" => Len(builder.fnodes) <= 1 + Cardinality(store.rlinks))
    /\ (builder.state # "Idle") ~> (builder.state = "Finished")

\* a build over a store with a shared node has returned as many nodes as
\* 1 plus the links
W36_EveryLinkShown ==
    /\ builder.state = "Finished"
    /\ Len(builder.out) = 1 + Cardinality(store.rlinks)
    /\ \E i, j \in 1..Len(builder.out) : i < j /\ builder.out[i].id = builder.out[j].id

\* ------------------------------------------- session view (ui/session.rs)
\* items of one session view: up to MaxItems, keys 1..MaxItems
MaxItems == 3
\* lines of one item: 1..MaxItemHeight
MaxItemHeight == 2
\* rows of the session area: 0..MaxSessionHeight
MaxSessionHeight == 3

\* An Item is its key (the session and id it is ordered by) and its height,
\* max(session_splits.len() - 1, name_splits.len() - 1).  The lists the
\* controller hands over are sorted by key, one item per key.
ItemLists ==
    {q \in UNION {[1..n -> [key : 1..MaxItems, h : 1..MaxItemHeight]] : n \in 0..MaxItems} :
        \A i \in 1..(Len(q) - 1) : q[i].key < q[i + 1].key}

\* the offsets anchor_top pushes for items[from ..] (from is 1-based), h
\* being the rows taken so far
RECURSIVE top_heights(_, _, _, _)
top_heights(items, from, h, session_height) ==
    IF from > Len(items) \/ h + items[from].h > session_height THEN <<>>
    ELSE <<h>> \o top_heights(items, from + 1, h + items[from].h, session_height)

\* SessionView::anchor_top; &self.items[index..] panics for index > len
anchor_top(sv, index) ==
    IF index > Len(sv.items) THEN [sv EXCEPT !.panicked = TRUE]
    ELSE [sv EXCEPT !.heights = top_heights(sv.items, index + 1, 0, sv.session_height),
                    !.start = index]

\* the offsets anchor_bottom pushes for items[..= at] walked backwards (at
\* is 1-based), h being the rows left; in the order they are pushed
RECURSIVE bottom_heights(_, _, _)
bottom_heights(items, at, h) ==
    IF at < 1 \/ h < items[at].h THEN <<>>
    ELSE <<h - items[at].h>> \o bottom_heights(items, at - 1, h - items[at].h)

reverse(q) == [k \in 1..Len(q) |-> q[Len(q) + 1 - k]]

\* SessionView::anchor_bottom; &self.items[..=index] panics for index >= len
anchor_bottom(sv, index) ==
    IF index >= Len(sv.items) THEN [sv EXCEPT !.panicked = TRUE]
    ELSE Only({[sv EXCEPT !.heights = reverse(hs), !.start = index + 1 - Len(hs)]
               : hs \in {bottom_heights(sv.items, index + 1, sv.session_height)}})

\* SessionView::window, as the indices it holds
window(sv) == sv.start..(sv.start + Len(sv.heights) - 1)

\* SessionView::cursor_up
SessionView_cursor_up(sv) ==
    IF sv.cursor <= sv.start
    THEN Only({anchor_top([sv EXCEPT !.cursor = c], c)
               : c \in {IF sv.cursor > 0 THEN sv.cursor - 1 ELSE sv.cursor}})
    ELSE IF sv.cursor > sv.start + Len(sv.heights)
    THEN Only({anchor_bottom([sv EXCEPT !.cursor = c], c)
               : c \in {IF sv.cursor > 0 THEN sv.cursor - 1 ELSE sv.cursor}})
    ELSE [sv EXCEPT !.cursor = @ - 1]

\* SessionView::cursor_down
SessionView_cursor_down(sv) ==
    IF sv.items = <<>> THEN sv
    ELSE IF sv.cursor + 1 < sv.start
    THEN Only({anchor_top([sv EXCEPT !.cursor = c], c)
               : c \in {IF sv.cursor + 1 < Len(sv.items) THEN sv.cursor + 1 ELSE sv.cursor}})
    ELSE IF sv.cursor + 1 >= sv.start + Len(sv.heights)
    THEN Only({anchor_bottom([sv EXCEPT !.cursor = c], c)
               : c \in {IF sv.cursor + 1 < Len(sv.items) THEN sv.cursor + 1 ELSE sv.cursor}})
    ELSE [sv EXCEPT !.cursor = @ + 1]

\* slice::binary_search for the item x in the sorted list items: the index
\* of an equal item, else the index x would be inserted at.  An item of the
\* same key with other splits compares less or greater by fields the model
\* does not hold, so both places next to it are possible.
binary_search(items, x) ==
    Only({
        IF \E k \in 1..Len(items) : items[k] = x THEN {below}
        ELSE IF \E k \in 1..Len(items) : items[k].key = x.key THEN {below, below + 1}
        ELSE {below}
        : below \in {Cardinality({k \in 1..Len(items) : items[k].key < x.key})}})

\* the index reset keeps: pos, or the last index when pos is past the end
\* (items.len().saturating_sub(1))
kept_index(pos, items) ==
    IF pos < Len(items) THEN pos ELSE IF items = <<>> THEN 0 ELSE Len(items) - 1

\* SessionView::reset with the two places binary_search returned;
\* self.items[self.cursor] and self.items[self.start] panic past the end
SessionView_reset(sv, items, pos, start) ==
    IF sv.items = <<>> THEN anchor_top([sv EXCEPT !.items = items], sv.start)
    ELSE IF sv.cursor >= Len(sv.items) \/ sv.start >= Len(sv.items)
    THEN [sv EXCEPT !.panicked = TRUE]
    ELSE anchor_top([sv EXCEPT !.cursor = kept_index(pos, items),
                               !.items = items],
                    kept_index(start, items))

\* SessionView::resize, after the constraints changed: every item wrapped
\* again, to the heights hs, then anchor_top
SessionView_resize(sv, hs, session_height) ==
    anchor_top([sv EXCEPT !.items = [k \in 1..Len(sv.items) |-> [sv.items[k] EXCEPT !.h = hs[k]]],
                          !.session_height = session_height],
               sv.start)

\* SessionView::new with the items of the store: cursor and start 0
InitSessionView ==
    /\ store = create_base
    /\ last = NoOp
    /\ nops = 0
    /\ issued = {}
    /\ txn = NoHandle
    /\ snap = NoHandle
    /\ roots = Slots
    /\ mode = Idle.mode
    /\ status_view = Idle.status_view
    /\ wrapped = Idle.wrapped
    /\ parsed = Idle.parsed
    /\ builder = Idle.builder
    /\ tree_view = Idle.tree_view
    /\ \E items \in ItemLists, session_height \in 0..MaxSessionHeight :
         session_view = anchor_top([Idle.session_view EXCEPT !.items = items,
                                       !.session_height = session_height], 0)

\* KeyCode::Up
SessionCursorUp ==
    /\ ~session_view.panicked
    /\ session_view' = SessionView_cursor_up(session_view)
    /\ UNCHANGED <<store, last, nops, issued, txn, snap, roots, mode, status_view,
                   wrapped, parsed, builder, tree_view>>

\* KeyCode::Down
SessionCursorDown ==
    /\ ~session_view.panicked
    /\ session_view' = SessionView_cursor_down(session_view)
    /\ UNCHANGED <<store, last, nops, issued, txn, snap, roots, mode, status_view,
                   wrapped, parsed, builder, tree_view>>

\* Event::Resize: other widths and another session height
SessionResize ==
    /\ ~session_view.panicked
    /\ \E hs \in [1..Len(session_view.items) -> 1..MaxItemHeight],
          session_height \in 0..MaxSessionHeight :
         session_view' = SessionView_resize(session_view, hs, session_height)
    /\ UNCHANGED <<store, last, nops, issued, txn, snap, roots, mode, status_view,
                   wrapped, parsed, builder, tree_view>>

\* update_session_view: the items of the store as they are now
SessionReset ==
    /\ ~session_view.panicked
    /\ \E items \in ItemLists :
         \E pos \in (IF session_view.items = <<>> \/ session_view.cursor >= Len(session_view.items)
                     THEN {0} ELSE binary_search(items, session_view.items[session_view.cursor + 1])),
            start \in (IF session_view.items = <<>> \/ session_view.start >= Len(session_view.items)
                       THEN {0} ELSE binary_search(items, session_view.items[session_view.start + 1])) :
            session_view' = SessionView_reset(session_view, items, pos, start)
    /\ UNCHANGED <<store, last, nops, issued, txn, snap, roots, mode, status_view,
                   wrapped, parsed, builder, tree_view>>

NextSessionView ==
    \/ SessionCursorUp
    \/ SessionCursorDown
    \/ SessionResize
    \/ SessionReset

SpecSessionView == InitSessionView /\ [][NextSessionView]_vars

\* C40: after any sequence of cursor_up, cursor_down, resize and reset, for
\* every session height and item heights (items taller than the view too), a
\* SessionView with items has cursor < items.len(), start < items.len() and
\* its window [start, start + heights.len()) within the items, and no method
\* has indexed the items out of bounds.
C40_CursorAndWindowInBounds ==
    /\ ~session_view.panicked
    /\ session_view.items # <<>> =>
          /\ session_view.cursor < Len(session_view.items)
          /\ session_view.start < Len(session_view.items)
          /\ session_view.start + Len(session_view.heights) <= Len(session_view.items)

\* ------------------------------------------------ tree view (ui/tree.rs, tvc.rs)
\* transactions of one run of the tree view
MaxViewOps == 3

\* the sizes of the tree area: a terminal wide and high enough for every
\* node of the store to take one row
ViewConstr == TreeViewConstraints_update(25, 12)

\* the loop of build_flattree run to its end
RECURSIVE build_loop(_, _)
build_loop(s, b) ==
    IF b.state = "Build" THEN Only({build_loop(s, n) : n \in {step(b)}})
    ELSE IF b.state = "Refill" THEN Only({build_loop(s, n) : n \in {refill(s, b, b.start)}})
    ELSE IF b.state = "Done" THEN finish(b)
    ELSE b

\* TreeViewReader::build_flattree
build_flattree(s, c, id) == build_loop(s, build_start(s, c, id))

\* get_node unwraps the payload of every id it is called for: the root and
\* the children of every expanded id
build_panics(s, b) ==
    \/ read(s, b.root) = NoneId
    \/ \E k \in 1..Len(b.fetched) :
          \E j \in 1..Len(child_ids(s, b.fetched[k]).ids) :
             read(s, child_ids(s, b.fetched[k]).ids[j]) = NoneId

\* the rows of a flat tree: what the tree view reads of a Node
rows_of(out) ==
    [k \in 1..Len(out) |-> [id |-> out[k].id, pid |-> out[k].pid, det |-> out[k].priority.det]]

NoRow == [id |-> NoneId, pid |-> NoneId, det |-> 0]

\* TreeView::cursor_node
cursor_node(tv) == IF Len(tv.flattree) > 0 THEN tv.flattree[tv.cursor + 1] ELSE NoRow

\* TreeView::is_cursor_at_root
is_cursor_at_root(tv) == tv.cursor = 0

\* the loop of TreeView::reset over flattree[i ..] (i is 1-based); -1 is None
RECURSIVE reset_scan(_, _, _, _)
reset_scan(flattree, i, at, acc) ==
    IF i > Len(flattree) THEN acc
    ELSE IF flattree[i].id = at.id /\ flattree[i].pid = at.pid
    THEN [acc EXCEPT !.same = i - 1]
    ELSE IF flattree[i].pid = at.pid /\ flattree[i].det = at.det
    THEN reset_scan(flattree, i + 1, at, [acc EXCEPT !.next = i - 1])
    ELSE IF flattree[i].pid = at.pid /\ flattree[i].det + 1 = at.det
    THEN reset_scan(flattree, i + 1, at, [acc EXCEPT !.prev = i - 1])
    ELSE IF acc.parent = -1 /\ flattree[i].id = at.pid
    THEN reset_scan(flattree, i + 1, at, [acc EXCEPT !.parent = i - 1])
    ELSE reset_scan(flattree, i + 1, at, acc)

\* TreeView::reset
TreeView_reset(tv, flattree) ==
    IF cursor_node(tv) = NoRow THEN [tv EXCEPT !.cursor = 0, !.flattree = flattree]
    ELSE Only({
        [tv EXCEPT !.cursor = IF f.same # -1 THEN f.same ELSE IF f.next # -1 THEN f.next
                              ELSE IF f.prev # -1 THEN f.prev
                              ELSE IF f.parent # -1 THEN f.parent ELSE 0,
                   !.flattree = flattree]
        : f \in {reset_scan(flattree, 1, cursor_node(tv),
                            [same |-> -1, next |-> -1, prev |-> -1, parent |-> -1])}})

\* TreeView::toggle
toggle(tv) ==
    IF cursor_node(tv) = NoRow THEN tv
    ELSE Only({[tv EXCEPT !.selections = IF row \in @ THEN @ \ {row} ELSE @ \cup {row}]
               : row \in {<<cursor_node(tv).pid, cursor_node(tv).id>>}})

\* TreeView::deselect
deselect(tv) ==
    IF cursor_node(tv) = NoRow THEN tv
    ELSE [tv EXCEPT !.selections = @ \ {<<cursor_node(tv).pid, cursor_node(tv).id>>}]

\* TreeView::clear_selections
clear_selections(tv) == [tv EXCEPT !.selections = {}]

\* TreeView::cursor_up, TreeView::cursor_down
TreeView_cursor_up(tv) == IF tv.cursor > 0 THEN [tv EXCEPT !.cursor = @ - 1] ELSE tv
TreeView_cursor_down(tv) ==
    IF tv.cursor + 1 < Len(tv.flattree) THEN [tv EXCEPT !.cursor = @ + 1] ELSE tv

\* TreeView::move_into, TreeView::move_out
TreeView_move_into(tv) ==
    IF cursor_node(tv) = NoRow \/ is_cursor_at_root(tv) THEN tv
    ELSE [tv EXCEPT !.stack = Append(@, tv.root_id), !.root_id = cursor_node(tv).id]
TreeView_move_out(tv) ==
    IF tv.stack = <<>> THEN tv
    ELSE [tv EXCEPT !.root_id = tv.stack[Len(tv.stack)],
                    !.stack = SubSeq(@, 1, Len(@) - 1)]

\* TreeViewController::update_tree_view on the committed store env
update_tree_view(env, tv) ==
    Only({IF build_panics(reader(env).s, b) THEN [tv EXCEPT !.halted = "panic"]
          ELSE TreeView_reset(tv, rows_of(b.out))
          : b \in {build_flattree(reader(env).s, ViewConstr, tv.root_id)}})

\* the ids of TreeView::selection_ids and the pairs of TreeView::selections,
\* in every order the HashMap can yield them; nothing for an empty view
view_selection_ids(tv) ==
    IF tv.selections = {} /\ cursor_node(tv) = NoRow THEN {<<>>}
    ELSE {q \in selection_ids(tv.selections, <<cursor_node(tv).pid, cursor_node(tv).id>>) :
            tv.selections # {} => Len(q) = Cardinality({x[2] : x \in tv.selections})}

view_selections(tv) ==
    IF tv.selections = {} /\ cursor_node(tv) = NoRow THEN {<<>>}
    ELSE selections(tv.selections, <<cursor_node(tv).pid, cursor_node(tv).id>>)

\* an intent ran over ids of which one is absent from NODES
Stale(env, ids) == \E k \in 1..Len(ids) : read(env, ids[k]) = NoneId

\* the loop of rename: read(id)?.unwrap(), then modify
RECURSIVE rename_loop(_, _, _)
rename_loop(w, ids, named) ==
    IF ids = <<>> THEN [s |-> w, err |-> FALSE, panic |-> FALSE]
    ELSE IF read(w, Head(ids)) = NoneId THEN [s |-> w, err |-> FALSE, panic |-> TRUE]
    ELSE Only({IF r.err THEN [s |-> w, err |-> TRUE, panic |-> FALSE]
               ELSE rename_loop(r.s, Tail(ids), named)
               : r \in {modify(w, Head(ids),
                               serialize(named, deserialize(read(w, Head(ids))).due_date))}})

\* the loop of add_child over the other selected ids: writer.share(id, pid)?
RECURSIVE share_under(_, _, _)
share_under(w, id, pids) ==
    IF pids = <<>> THEN Ok(w, id)
    ELSE Only({IF r.err THEN r ELSE share_under(r.s, id, Tail(pids))
               : r \in {share(w, id, Head(pids))}})

\* TreeViewController::new, then update_tree_view on the fresh store
InitTreeView ==
    /\ store = create_base
    /\ last = NoOp
    /\ nops = 0
    /\ issued = {}
    /\ txn = NoHandle
    /\ snap = NoHandle
    /\ roots = Slots
    /\ mode = Idle.mode
    /\ status_view = Idle.status_view
    /\ wrapped = Idle.wrapped
    /\ parsed = Idle.parsed
    /\ builder = Idle.builder
    /\ session_view = Idle.session_view
    /\ tree_view = update_tree_view(create_base, Idle.tree_view)

\* Space, Up, Down
ViewToggle ==
    /\ tree_view.halted = "no"
    /\ Cardinality(toggle(tree_view).selections) <= MaxSel
    /\ tree_view' = toggle(tree_view)
    /\ UNCHANGED <<store, last, nops, issued, txn, snap, roots, mode, status_view,
                   wrapped, parsed, builder, session_view>>

ViewCursorUp ==
    /\ tree_view.halted = "no"
    /\ tree_view' = TreeView_cursor_up(tree_view)
    /\ UNCHANGED <<store, last, nops, issued, txn, snap, roots, mode, status_view,
                   wrapped, parsed, builder, session_view>>

ViewCursorDown ==
    /\ tree_view.halted = "no"
    /\ tree_view' = TreeView_cursor_down(tree_view)
    /\ UNCHANGED <<store, last, nops, issued, txn, snap, roots, mode, status_view,
                   wrapped, parsed, builder, session_view>>

\* Right, Left: TreeViewController::move_into, move_out
ViewMoveInto ==
    /\ tree_view.halted = "no"
    /\ tree_view' = update_tree_view(store, TreeView_move_into(tree_view))
    /\ UNCHANGED <<store, last, nops, issued, txn, snap, roots, mode, status_view,
                   wrapped, parsed, builder, session_view>>

ViewMoveOut ==
    /\ tree_view.halted = "no"
    /\ tree_view' = update_tree_view(store, TreeView_move_out(tree_view))
    /\ UNCHANGED <<store, last, nops, issued, txn, snap, roots, mode, status_view,
                   wrapped, parsed, builder, session_view>>

\* a, the first of Names, Enter: TreeViewController::add_child, whose
\* payload is NodeData::with_name (no due date)
ViewAddChild ==
    /\ tree_view.halted = "no"
    /\ nops < MaxViewOps
    /\ store.id <= MaxId
    /\ \E ids \in view_selection_ids(tree_view), data \in {serialize(1, -1)} :
         /\ ids # <<>>
         /\ \E r \in {Only({IF a.err THEN a ELSE share_under(a.s, a.ret, Tail(ids))
                            : a \in {add_child(writer(store).s, Head(ids), data)}})} :
              IF r.err
              THEN /\ tree_view' = [tree_view EXCEPT !.halted = "error"]
                   /\ UNCHANGED <<store, issued>>
              ELSE /\ store' = commit(store, r.s)
                   /\ issued' = issued \cup {r.ret}
                   /\ tree_view' = update_tree_view(commit(store, r.s),
                                                    clear_selections(tree_view))
    /\ nops' = nops + 1
    /\ UNCHANGED <<last, txn, snap, roots, mode, status_view, wrapped, parsed, builder,
                   session_view>>

\* d: TreeViewController::delete
ViewDelete ==
    /\ tree_view.halted = "no"
    /\ nops < MaxViewOps
    /\ cursor_node(tree_view) # NoRow
    /\ ~is_cursor_at_root(tree_view)
    /\ \E r \in {delete(writer(store).s, cursor_node(tree_view).pid, cursor_node(tree_view).id)} :
         IF r.err
         THEN /\ tree_view' = [tree_view EXCEPT !.halted = "error"]
              /\ UNCHANGED store
         ELSE /\ store' = commit(store, r.s)
              /\ tree_view' = update_tree_view(commit(store, r.s), deselect(tree_view))
    /\ nops' = nops + 1
    /\ UNCHANGED <<last, issued, txn, snap, roots, mode, status_view, wrapped, parsed,
                   builder, session_view>>

\* r, the second of Names, Enter: TreeViewController::rename
ViewRename ==
    /\ tree_view.halted = "no"
    /\ nops < MaxViewOps
    /\ \E ids \in view_selection_ids(tree_view), named \in {2} :
         \E r \in {rename_loop(writer(store).s, ids, named)} :
            IF r.panic
            THEN /\ tree_view' = [tree_view EXCEPT !.halted = "panic", !.stale = TRUE]
                 /\ UNCHANGED store
            ELSE IF r.err
            THEN /\ tree_view' = [tree_view EXCEPT !.halted = "error"]
                 /\ UNCHANGED store
            ELSE /\ store' = commit(store, r.s)
                 /\ tree_view' = update_tree_view(commit(store, r.s), clear_selections(tree_view))
    /\ nops' = nops + 1
    /\ UNCHANGED <<last, issued, txn, snap, roots, mode, status_view, wrapped, parsed,
                   builder, session_view>>

\* ".": TreeViewController::share
ViewShare ==
    /\ tree_view.halted = "no"
    /\ nops < MaxViewOps
    /\ cursor_node(tree_view) # NoRow
    /\ \E ids \in view_selection_ids(tree_view) :
         \E r \in {share_intent(store, ids, cursor_node(tree_view).id)} :
            IF r.err
            THEN /\ tree_view' = [tree_view EXCEPT !.halted = "error"]
                 /\ UNCHANGED store
            ELSE IF ~r.res
            THEN /\ tree_view' = [tree_view EXCEPT !.stale = @ \/ Stale(store, SubSeq(ids, 1, r.ret + 1))]
                 /\ UNCHANGED store
            ELSE /\ store' = r.s
                 /\ tree_view' = update_tree_view(r.s,
                        clear_selections([tree_view EXCEPT !.stale = @ \/ Stale(store, ids)]))
    /\ nops' = nops + 1
    /\ UNCHANGED <<last, issued, txn, snap, roots, mode, status_view, wrapped, parsed,
                   builder, session_view>>

\* x: TreeViewController::cut
ViewCut ==
    /\ tree_view.halted = "no"
    /\ nops < MaxViewOps
    /\ cursor_node(tree_view) # NoRow
    /\ \E sel \in view_selections(tree_view) :
         \E r \in {cut_intent(store, sel, cursor_node(tree_view).id)} :
            IF r.err
            THEN /\ tree_view' = [tree_view EXCEPT !.halted = "error",
                                    !.stale = @ \/ Stale(store, [k \in 1..Len(sel) |-> sel[k][2]])]
                 /\ UNCHANGED store
            ELSE IF ~r.res
            THEN /\ tree_view' = [tree_view EXCEPT
                                    !.stale = @ \/ Stale(store, [k \in 1..(r.ret + 1) |-> sel[k][2]])]
                 /\ UNCHANGED store
            ELSE /\ store' = r.s
                 /\ tree_view' = update_tree_view(r.s,
                        clear_selections([tree_view EXCEPT
                            !.stale = @ \/ Stale(store, [k \in 1..Len(sel) |-> sel[k][2]])]))
    /\ nops' = nops + 1
    /\ UNCHANGED <<last, issued, txn, snap, roots, mode, status_view, wrapped, parsed,
                   builder, session_view>>

NextTreeView ==
    \/ ViewToggle
    \/ ViewCursorUp
    \/ ViewCursorDown
    \/ ViewMoveInto
    \/ ViewMoveOut
    \/ ViewAddChild
    \/ ViewDelete
    \/ ViewRename
    \/ ViewShare
    \/ ViewCut

SpecTreeView == InitTreeView /\ [][NextTreeView]_vars

\* C37: after any sequence of toggle, cursor moves, move_into, move_out and
\* committed intents, every (parent, id) pair of the selection set is a
\* link of the store (or the row of the view's root, a node of the store),
\* and no Rename, Share or Cut has run over a selected id that is absent
\* from NODES.
C37_SelectionsAreLinks ==
    /\ \A row \in tree_view.selections :
          \/ get_rt(store, row[2], row[1]) # NoneRT
          \/ row[1] = row[2] /\ read(store, row[2]) # NoneId
    /\ ~tree_view.stale
====
